---- MODULE Spec2Model ----
(***************************************************************************)
(* stlib: the login negotiation of stlib.login.Login.do_login, with the    *)
(* helpers of stlib.universe it calls (specification Spec), the loop of    *)
(* attempts of stlib.utils.Base.request (RequestSpec), the registry of     *)
(* sessions of stlib.utils.Base (RegistrySpec), the signed confirmation    *)
(* requests of stlib.community.Community (SignerSpec) and do_login on two  *)
(* Login sessions at once (ConcurrentSpec).  Every action is the run of a  *)
(* coroutine from one await point to the next.                             *)
(*                                                                         *)
(* Python values: a str is a TLA+ string, except the guard codes, which    *)
(* are sequences of one-character strings (the code indexes and joins      *)
(* them); None and '' are ""; a dict is a function on its keys, {} is      *)
(* EmptyDict; bytes are sequences of 0..255.                               *)
(***************************************************************************)
EXTENDS Integers, Sequences, FiniteSets, TLC

(***************************************************************************)
(* Bounds of the model.                                                    *)
(***************************************************************************)
\* longest allowed_confirmations list the server answers with
MaxConfirmations == 2
\* longest transfer_info list the server answers with
MaxTransfers == 2

(***************************************************************************)
(* Values the caller and the server choose from.                           *)
(***************************************************************************)
EmptyDict == <<>>

Usernames == {"alice"}
Passwords == {"hunter2"}

\* shared secrets are base64 text; b64decode below gives their bytes
SharedSecrets == {"AAAAAAAA", "c2VjcmV0"}
\* a code the caller obtained out of band (mail, authenticator app)
ExternalCodes == {<<"R", "4", "K", "7", "M">>}

\* EAuthSessionGuardType values the server may declare; 1 stands for every
\* value login.py does not compare against (no guard, device confirmation...)
ConfirmationTypes == {1, 2, 3, 6}

\* GetPasswordRSAPublicKey answers (hex text, as on the wire)
KeyData ==
    { [publickey_mod |-> "c5", publickey_exp |-> "11", timestamp |-> "1000"],
      [publickey_mod |-> "fd", publickey_exp |-> "03", timestamp |-> "2000"] }
\* the random padding rsa.encrypt draws
Paddings == {"ps1", "ps2"}

\* what BeginAuthSessionViaCredentials hands out
AuthSessions ==
    { [client_id |-> "c1", request_id |-> "r1", steamid |-> "76561198000000001"],
      [client_id |-> "c2", request_id |-> "r2", steamid |-> "76561198000000002"] }

ServerTimes == {59, 60}

Tokens ==
    { [refresh_token |-> "rt1", access_token |-> "at1"],
      [refresh_token |-> "rt2", access_token |-> "at2"] }

\* seeds of random.choices
Seeds == {1, 7}

TransferItems ==
    { [url |-> "https://steamcommunity.com/login/settoken",
       params |-> [nonce |-> "n1", auth |-> "a1"]],
      [url |-> "https://store.steampowered.com/login/settoken",
       params |-> [nonce |-> "n2", auth |-> "a2"]] }

\* sequences over S of length 0..n
RECURSIVE SeqsUpTo(_, _)
SeqsUpTo(S, n) ==
    IF n = 0 THEN {<<>>}
    ELSE LET shorter == SeqsUpTo(S, n - 1)
         IN  shorter \cup {Append(s, x) : s \in {t \in shorter : Len(t) = n - 1}, x \in S}

(***************************************************************************)
(* stlib.universe                                                          *)
(***************************************************************************)
STEAM_ALPHABET ==
    << "2", "3", "4", "5", "6", "7", "8", "9", "B", "C", "D", "F", "G",
       "H", "J", "K", "M", "N", "P", "Q", "R", "T", "V", "W", "X", "Y" >>

\* base64.b64decode on the shared secrets of the model
b64decode(text) ==
    CASE text = "AAAAAAAA" -> <<0, 0, 0, 0, 0, 0>>
      [] text = "c2VjcmV0" -> <<115, 101, 99, 114, 101, 116>>
      [] text = "AQIDBA==" -> <<1, 2, 3, 4>>

\* int.to_bytes(length, 'big')
RECURSIVE to_bytes(_, _)
to_bytes(n, length) ==
    IF length = 0 THEN <<>>
    ELSE Append(to_bytes(n \div 256, length - 1), n % 256)

\* hmac.new(key, msg, sha1).digest()[start:start + 4] as a 32-bit word
\* [top, low]: SHA-1 is not computed; the word is a fixed mixing of every
\* byte of key and msg, so equal inputs give equal words and the inputs of
\* the model give different ones.
RECURSIVE mix(_, _)
mix(h, bytes) ==
    IF bytes = <<>> THEN h
    ELSE mix((h * 33 + Head(bytes) + 1) % 33554432, Tail(bytes))

hmac_sha1_word(key, msg) ==
    LET h == mix(mix(5381, key), msg)
    IN  [top |-> h % 2, low |-> h * 61 + 17]

\* & 0x7FFFFFFF drops the top bit of the word
generate_otp_code(msg, key) ==
    hmac_sha1_word(key, msg).low

RECURSIVE steam_code_loop(_, _)
steam_code_loop(auth_code_raw, rounds) ==
    IF rounds = 0 THEN <<>>
    ELSE <<STEAM_ALPHABET[(auth_code_raw % Len(STEAM_ALPHABET)) + 1]>>
         \o steam_code_loop(auth_code_raw \div Len(STEAM_ALPHABET), rounds - 1)

\* one character more than the code has
generate_steam_code_six(server_time, shared_secret) ==
    LET msg == to_bytes(server_time \div 30, 8)
        key == b64decode(shared_secret)
        auth_code_raw == generate_otp_code(msg, key)
    IN  steam_code_loop(auth_code_raw, 6)

\* the code of the second, not of the 30 seconds it lies in
generate_steam_code_by_second(server_time, shared_secret) ==
    LET msg == to_bytes(server_time, 8)
        key == b64decode(shared_secret)
        auth_code_raw == generate_otp_code(msg, key)
    IN  steam_code_loop(auth_code_raw, 5)

generate_steam_code(server_time, shared_secret) ==
    LET msg == to_bytes(server_time \div 30, 8)
        key == b64decode(shared_secret)
        auth_code_raw == generate_otp_code(msg, key)
    IN  steam_code_loop(auth_code_raw, 5)

\* str.encode() on the tags and the passwords of the model
encode(text) ==
    CASE text = "" -> <<>>
      [] text = "0000" -> <<48, 48, 48, 48>>
      [] text = "hunter2" -> <<104, 117, 110, 116, 101, 114, 50>>
      [] text = "hunter3" -> <<104, 117, 110, 116, 101, 114, 51>>
      [] text = "conf" -> <<99, 111, 110, 102>>
      [] text = "details7" -> <<100, 101, 116, 97, 105, 108, 115, 55>>
      [] text = "details8" -> <<100, 101, 116, 97, 105, 108, 115, 56>>
      [] text = "details9" -> <<100, 101, 116, 97, 105, 108, 115, 57>>

\* hmac.new(key, msg, hashlib.sha1).digest(), by the same mixing
hmac_sha1(key, msg) == mix(mix(5381, key), msg)

\* base64.b64encode(digest).decode(), as the text that goes on the wire
b64encode_digest(digest) == "b64{" \o ToString(digest) \o "}"

generate_time_hash(server_time, tag, secret) ==
    LET key == b64decode(secret)
        msg == to_bytes(server_time, 8) \o encode(tag)
        auth == hmac_sha1(key, msg)
    IN  b64encode_digest(auth)

\* int(text, 16) on the hex text of the model's keys
int16(text) ==
    CASE text = "c5" -> 197
      [] text = "fd" -> 253
      [] text = "11" -> 17
      [] text = "03" -> 3

\* int(text) on the timestamps of the model's keys
int10(text) ==
    CASE text = "1000" -> 1000
      [] text = "2000" -> 2000

\* rsa.encrypt: PKCS#1 v1.5 under the public key, as a symbolic ciphertext
\* (only the matching private key opens it); padding is the random filler
rsa_encrypt(message, pub_key, padding) ==
    [cipher |-> "rsa", n |-> pub_key.n, e |-> pub_key.e,
     block |-> [padding |-> padding, message |-> message]]

\* the bytes of a message as text
RECURSIVE text_of(_)
text_of(bytes) ==
    IF bytes = <<>> THEN ""
    ELSE ToString(Head(bytes)) \o "." \o text_of(Tail(bytes))

\* base64.b64encode of a ciphertext, as the text that goes on the wire
b64encode(bytes) ==
    "b64{" \o bytes.cipher \o ":" \o ToString(bytes.n) \o ":" \o ToString(bytes.e)
    \o ":" \o bytes.block.padding \o ":" \o text_of(bytes.block.message) \o "}"

\* the password of the test encrypted, whatever the password is
encrypt_password_of_test(steam_key, password, padding) ==
    b64encode(rsa_encrypt(encode("0000"), steam_key.key, padding))

encrypt_password(steam_key, password, padding) ==
    b64encode(rsa_encrypt(encode(password), steam_key.key, padding))

(***************************************************************************)
(* stlib.community: the query that signs a mobile confirmation request     *)
(***************************************************************************)
\* longest list of confirmations getlist answers with
MaxListed == 2

IdentitySecrets == {"AAAAAAAA", "c2VjcmV0"}
DeviceIds == {"android:5a6b"}
SteamIds == {[id64 |-> "76561198000000001"], [id64 |-> "76561198000000002"]}

\* the confirmations of a getlist answer: id and type (2 a trade, 3 a
\* market listing)
ListedConfirmations ==
    {[id |-> 7, type |-> 2], [id |-> 8, type |-> 3], [id |-> 9, type |-> 3]}

\* every time hash under the tag of the list
new_mobileconf_query_list_tag(deviceid, steamid, identity_secret, tag, servertime) ==
    [p |-> deviceid,
     a |-> steamid.id64,
     k |-> generate_time_hash(servertime, "conf", identity_secret),
     t |-> servertime,
     m |-> "android",
     tag |-> tag]

\* _new_mobileconf_query from the answer to its GetServerInfo request on
new_mobileconf_query(deviceid, steamid, identity_secret, tag, servertime) ==
    [p |-> deviceid,
     a |-> steamid.id64,
     k |-> generate_time_hash(servertime, tag, identity_secret),
     t |-> servertime,
     m |-> "android",
     tag |-> tag]

(***************************************************************************)
(* stlib.login: exceptions and result types                                *)
(***************************************************************************)
NoError == [class |-> "none"]
NoResult == [steamid |-> ""]

LoginError(message, captcha_requested) ==
    [class |-> "LoginError", message |-> message,
     captcha_requested |-> captcha_requested]

CaptchaError(message) ==
    [class |-> "CaptchaError", message |-> message, captcha_requested |-> TRUE]

MailCodeError(message, captcha_requested) ==
    [class |-> "MailCodeError", message |-> message,
     captcha_requested |-> captcha_requested]

TwoFactorCodeError(message, captcha_requested) ==
    [class |-> "TwoFactorCodeError", message |-> message,
     captcha_requested |-> captcha_requested]

AttributeError(message) == [class |-> "AttributeError", message |-> message]
ValueError(message) == [class |-> "ValueError", message |-> message]

AuthCodeType == {"email", "device", "machine"}

AuthCodeType_value(member) ==
    CASE member = "email" -> 2
      [] member = "device" -> 3
      [] member = "machine" -> 6

TransferInfo(url, nonce, auth) == [url |-> url, nonce |-> nonce, auth |-> auth]

LoginData(sid, cid, sess, refresh, access, transfers) ==
    [steamid |-> sid, client_id |-> cid, sessionid |-> sess,
     refresh_token |-> refresh, access_token |-> access,
     transfer_info |-> transfers]

(***************************************************************************)
(* stlib.utils.Base.request, as do_login sees it: the request it hands to  *)
(* the http session, and the ways the call ends without a response.        *)
(***************************************************************************)
request_params(url, params, data) ==
    [method |-> IF data # EmptyDict THEN "POST" ELSE "GET",
     url |-> url, params |-> params, data |-> data]

\* what request raises instead of returning: the response error of the http
\* session, or the session-expired LoginError of a redirect to the login page
RequestErrors ==
    { [class |-> "ClientResponseError", message |-> "status"],
      LoginError("User are not logged in", FALSE) }

\* endpoints (self.api_url and self.login_url prefixes left out)
GetPasswordRSAPublicKey == "IAuthenticationService/GetPasswordRSAPublicKey/v1"
BeginAuthSessionViaCredentials == "IAuthenticationService/BeginAuthSessionViaCredentials/v1"
GetServerInfo == "ISteamWebAPIUtil/GetServerInfo/v1"
UpdateAuthSessionWithSteamGuardCode == "IAuthenticationService/UpdateAuthSessionWithSteamGuardCode/v1"
PollAuthSessionStatus == "IAuthenticationService/PollAuthSessionStatus/v1"
finalizelogin == "jwt/finalizelogin"

(***************************************************************************)
(* What the server may answer.                                             *)
(***************************************************************************)
KeyResponses ==
    {[response |-> EmptyDict]} \cup {[response |-> k] : k \in KeyData}

\* the server declares at least one type (do_login reads entry [0] unguarded)
AllowedConfirmations ==
    SeqsUpTo({[confirmation_type |-> t] : t \in ConfirmationTypes}, MaxConfirmations)
    \ {<<>>}

BeginResponses ==
    {[response |-> EmptyDict], [response |-> [extended_error_message |-> "denied"]]}
    \cup {[response |-> [client_id |-> s.client_id, request_id |-> s.request_id,
                         steamid |-> s.steamid, allowed_confirmations |-> a]] :
            s \in AuthSessions, a \in AllowedConfirmations}

ServerInfoResponses == {[servertime |-> t] : t \in ServerTimes}

UpdateResponses ==
    {[response |-> EmptyDict], [response |-> [agreement_session_url |-> "url"]]}

PollResponses ==
    {[response |-> EmptyDict], [response |-> [had_remote_interaction |-> FALSE]]}
    \cup {[response |-> t] : t \in Tokens}

FinalizeResponses ==
    {[transfer_info |-> items] : items \in SeqsUpTo(TransferItems, MaxTransfers)}

\* the cookies a transfer response sets
TransferResponses ==
    {[cookies |-> c] : c \in {{}, {"sessionid"}, {"steamLoginSecure", "sessionid"}}}

\* random.choices(population, k=k), the generator's state being the seed
random_choices(population, k, seed) ==
    [i \in 1..k |-> population[((seed * i) % Len(population)) + 1]]

HexDigits ==
    <<"0", "1", "2", "3", "4", "5", "6", "7", "8", "9", "a", "b", "c", "d", "e", "f">>

(***************************************************************************)
(* State: the Login session's attributes, the frame of the running         *)
(* do_login call, the requests that call has handed to the http session,   *)
(* and how the call ended.                                                 *)
(***************************************************************************)
VARIABLES
    username,         \* self._username
    password,         \* self.__password
    pc,               \* the await point do_login is suspended at: the endpoint
                      \* awaited, "transfer", or "idle", "returned", "raised"
    original_fargs,   \* _original_fargs: the arguments as the caller gave them
    shared_secret,    \* do_login's parameters and locals, by their names
    auth_code,
    auth_code_type,
    mobile_login,
    steam_key,        \* _new_login_data's steam_key
    json_data,        \* the answers to begin, poll and finalize in turn
    auth_data,
    client_id,
    request_id,
    steamid,
    server_time,
    refresh_token,
    access_token,
    sessionid,
    transfer_info,
    transfer_response, \* response: the answer to the last transfer request
    sent,             \* the requests this call handed to self.request, in order
    received,         \* the server-issued values this call was answered with
    result,           \* the LoginData returned
    raised            \* the exception the call ended with

session == <<username, password>>
arguments == <<original_fargs, shared_secret, mobile_login>>
begun == <<client_id, request_id, steamid>>
tokens == <<refresh_token, access_token, sessionid>>

\* the frame of a running Base.request call
VARIABLES
    request_pc,       \* where request is suspended: "attempt" (the http
                      \* session's request), "sleep" (asyncio.sleep), or
                      \* "idle", "returned", "raised"
    http_request,     \* request_params
    auto_recovery,
    try_count,
    http_log,         \* what the call did so far: the outcome of each attempt
                      \* and each sleep, in order
    request_result,   \* result, the Response returned
    request_raised    \* the exception the call ended with

transport == <<request_pc, http_request, auto_recovery, try_count, http_log,
               request_result, request_raised>>

\* the module-level _session_cache of stlib.utils and the calls on it
VARIABLES
    session_cache,    \* _session_cache: cache name -> (session index -> object)
    closed,           \* the http sessions that were closed
    destroying,       \* the destroy_session calls suspended at
                      \* `await http_session.close()`
    call,             \* the last step of a classmethod: what was called and
                      \* what it returned or raised
    http_sessions,    \* per index, how many ClientSessions new_session
                      \* created for it
    latest,           \* per class and index, the instance the latest
                      \* successful new_session created there
    destroyed         \* the instances destroy_session removed

registry == <<session_cache, closed, destroying, call, http_sessions, latest,
              destroyed>>

\* the frame of a running Community.get_confirmations or send_confirmation
VARIABLES
    mobileconf_pc,      \* the request awaited: "GetServerInfo", "getlist",
                        \* "details", "get_item_name", "ajaxop", or "idle",
                        \* "returned", "raised"
    mobileconf_args,    \* the method called and its arguments
    mobileconf_site,    \* which request the query being built is for
    mobileconf_tag,     \* tag of the running _new_mobileconf_query
    mobileconf_query,   \* params, details_params: the last query built
    listed,             \* json_data['conf'] of the getlist answer
    listed_at,          \* position of the for statement in it
    item_names,         \* get_item_name calls the current item still needs
    confirmations,      \* the list get_confirmations builds
    mobileconf_log,     \* the requests of the call and their answers, in order
    mobileconf_result,  \* what the call returned
    mobileconf_raised   \* the exception the call ended with

signer == <<mobileconf_pc, mobileconf_args, mobileconf_site, mobileconf_tag,
            mobileconf_query, listed, listed_at, item_names, confirmations,
            mobileconf_log, mobileconf_result, mobileconf_raised>>

\* the attributes of the Login session and the frame of do_login
negotiation ==
    <<username, password, pc, original_fargs, shared_secret, auth_code,
      auth_code_type, mobile_login, steam_key, json_data, auth_data, client_id,
      request_id, steamid, server_time, refresh_token, access_token,
      sessionid, transfer_info, transfer_response, sent, received, result,
      raised>>

\* two Login sessions, created at session indexes 0 and 1: the variables of
\* `negotiation` are those of the session whose coroutine runs
VARIABLES
    running,          \* the session index of that session
    parked            \* the attributes and the do_login frame of the other one

sessions == <<running, parked>>

\* the functions of stlib.universe applied on their own
VARIABLES
    inputs,           \* the arguments at hand
    returned          \* what the functions returned, by name

functions == <<inputs, returned>>

\* Community.get_inventory and Community.get_my_orders, one call at a time
VARIABLES
    paging_pc,        \* where the coroutine is suspended
    page_params,      \* params
    page_data,        \* json_data
    served,           \* the call and what the server holds for it
    paging_outcome    \* what the call returned or raised

paging == <<paging_pc, page_params, page_data, served, paging_outcome>>

\* the state outside the Login session's, outside the transport's, outside
\* the registry's and outside the confirmation methods'
outside_login == <<transport, registry, signer, sessions, functions, paging>>
outside_request == <<negotiation, registry, signer, sessions, functions, paging>>
outside_registry == <<negotiation, transport, signer, sessions, functions, paging>>
outside_signer == <<negotiation, transport, registry, sessions, functions, paging>>
outside_sessions == <<transport, registry, signer, functions, paging>>
outside_functions == <<negotiation, transport, registry, signer, sessions, paging>>
outside_paging == <<negotiation, transport, registry, signer, sessions, functions>>

vars == <<negotiation, transport, registry, signer, sessions, functions, paging>>

NoKey == [key |-> [n |-> 0, e |-> 0], timestamp |-> 0]
NoResponse == [cookies |-> {}]

\* a value of the field `name` of a server answer
Received(name, value) == [name |-> name, value |-> value]

\* result before its assignment
Unbound == [status |-> 0]

\* no request is running
TransportIdle ==
    /\ request_pc = "idle"
    /\ http_request = EmptyDict
    /\ auto_recovery = TRUE
    /\ try_count = 0
    /\ http_log = <<>>
    /\ request_result = Unbound
    /\ request_raised = NoError

None == [class |-> "NoneType"]
NoInstance == [generation |-> 0]
NoCall == [op |-> "none"]

\* the classes with sessions, by cache name, and the session indexes used
Classes == {"stlib.login.Login", "stlib.community.Community"}
Indexes == {0, 1}

\* _session_cache = {} and nothing called yet
RegistryEmpty ==
    /\ session_cache = EmptyDict
    /\ closed = {}
    /\ destroying = {}
    /\ call = NoCall
    /\ http_sessions = [session_index \in Indexes |-> 0]
    /\ latest = [cls \in Classes |-> [session_index \in Indexes |-> NoInstance]]
    /\ destroyed = {}

\* a Login session after __init__ with no call made on it
IdleFrame(name, secret_word) ==
    [username |-> name,
     password |-> secret_word,
     pc |-> "idle",
     original_fargs |-> [shared_secret |-> "", auth_code |-> <<>>,
                         auth_code_type |-> "device", mobile_login |-> FALSE],
     shared_secret |-> "",
     auth_code |-> <<>>,
     auth_code_type |-> "device",
     mobile_login |-> FALSE,
     steam_key |-> NoKey,
     json_data |-> EmptyDict,
     auth_data |-> EmptyDict,
     client_id |-> "",
     request_id |-> "",
     steamid |-> "",
     server_time |-> 0,
     refresh_token |-> "",
     access_token |-> "",
     sessionid |-> <<>>,
     transfer_info |-> <<>>,
     transfer_response |-> NoResponse,
     sent |-> <<>>,
     received |-> {},
     result |-> NoResult,
     raised |-> NoError]

\* only one session is looked at
OneSession ==
    /\ running = 0
    /\ parked = IdleFrame("", "")

\* no confirmation call is running
SignerIdle ==
    /\ mobileconf_pc = "idle"
    /\ mobileconf_args = EmptyDict
    /\ mobileconf_site = ""
    /\ mobileconf_tag = ""
    /\ mobileconf_query = EmptyDict
    /\ listed = <<>>
    /\ listed_at = 0
    /\ item_names = 0
    /\ confirmations = <<>>
    /\ mobileconf_log = <<>>
    /\ mobileconf_result = None
    /\ mobileconf_raised = NoError

\* no function of stlib.universe applied
NothingGiven ==
    /\ inputs = EmptyDict
    /\ returned = EmptyDict

\* no paged request made
PagingIdle ==
    /\ paging_pc = "idle"
    /\ page_params = EmptyDict
    /\ page_data = EmptyDict
    /\ served = NoCall
    /\ paging_outcome = None

\* the Login session after __init__
LoginIdle ==
    /\ username = ""
    /\ password = ""
    /\ pc = "idle"
    /\ original_fargs = [shared_secret |-> "", auth_code |-> <<>>,
                         auth_code_type |-> "device", mobile_login |-> FALSE]
    /\ shared_secret = ""
    /\ auth_code = <<>>
    /\ auth_code_type = "device"
    /\ mobile_login = FALSE
    /\ steam_key = NoKey
    /\ json_data = EmptyDict
    /\ auth_data = EmptyDict
    /\ client_id = ""
    /\ request_id = ""
    /\ steamid = ""
    /\ server_time = 0
    /\ refresh_token = ""
    /\ access_token = ""
    /\ sessionid = <<>>
    /\ transfer_info = <<>>
    /\ transfer_response = NoResponse
    /\ sent = <<>>
    /\ received = {}
    /\ result = NoResult
    /\ raised = NoError

Init ==
    /\ TransportIdle
    /\ RegistryEmpty
    /\ SignerIdle
    /\ OneSession
    /\ NothingGiven
    /\ PagingIdle
    /\ LoginIdle

NoCallRunning == pc \in {"idle", "returned", "raised"}

(***************************************************************************)
(* Login.username and Login.password setters                               *)
(***************************************************************************)
SetUsername ==
    /\ NoCallRunning
    /\ \E name \in Usernames : username' = name
    /\ UNCHANGED <<password, pc, arguments, auth_code, auth_code_type, steam_key,
                   json_data, auth_data, begun, server_time, tokens, transfer_info,
                   transfer_response, sent, result, raised, received>>
    /\ UNCHANGED outside_login

SetPassword ==
    /\ NoCallRunning
    /\ \E secret \in Passwords : password' = secret
    /\ UNCHANGED <<username, pc, arguments, auth_code, auth_code_type, steam_key,
                   json_data, auth_data, begun, server_time, tokens, transfer_info,
                   transfer_response, sent, result, raised, received>>
    /\ UNCHANGED outside_login

(***************************************************************************)
(* Login.do_login, from the call to the first await (get_steam_key's       *)
(* request, reached through _new_login_data)                               *)
(***************************************************************************)
get_steam_key_request(name) ==
    request_params(GetPasswordRSAPublicKey, [account_name |-> name], EmptyDict)

\* the frame of the call before kept: its key, ids, tokens and what it received
do_login_keeps_frame ==
    /\ NoCallRunning
    /\ \E secret \in {""} \cup SharedSecrets, code \in {<<>>} \cup ExternalCodes,
          code_type \in AuthCodeType, mobile \in BOOLEAN :
          /\ original_fargs' = [shared_secret |-> secret, auth_code |-> code,
                                auth_code_type |-> code_type, mobile_login |-> mobile]
          /\ shared_secret' = secret
          /\ auth_code' = code
          /\ auth_code_type' = code_type
          /\ mobile_login' = mobile
    /\ json_data' = EmptyDict
    /\ auth_data' = EmptyDict
    /\ server_time' = 0
    /\ sessionid' = <<>>
    /\ transfer_info' = <<>>
    /\ transfer_response' = NoResponse
    /\ result' = NoResult
    /\ IF username = ""
       THEN /\ pc' = "raised"
            /\ raised' = AttributeError("Username is required to login")
            /\ sent' = <<>>
       ELSE /\ pc' = GetPasswordRSAPublicKey
            /\ raised' = NoError
            /\ sent' = <<get_steam_key_request(username)>>
    /\ UNCHANGED <<session, steam_key, begun, refresh_token, access_token, received>>
    /\ UNCHANGED outside_login

do_login ==
    /\ NoCallRunning
    /\ \E secret \in {""} \cup SharedSecrets, code \in {<<>>} \cup ExternalCodes,
          code_type \in AuthCodeType, mobile \in BOOLEAN :
          /\ original_fargs' = [shared_secret |-> secret, auth_code |-> code,
                                auth_code_type |-> code_type, mobile_login |-> mobile]
          /\ shared_secret' = secret
          /\ auth_code' = code
          /\ auth_code_type' = code_type
          /\ mobile_login' = mobile
    /\ steam_key' = NoKey
    /\ json_data' = EmptyDict
    /\ auth_data' = EmptyDict
    /\ client_id' = ""
    /\ request_id' = ""
    /\ steamid' = ""
    /\ server_time' = 0
    /\ refresh_token' = ""
    /\ access_token' = ""
    /\ sessionid' = <<>>
    /\ transfer_info' = <<>>
    /\ transfer_response' = NoResponse
    /\ result' = NoResult
    /\ received' = {}
    /\ IF username = ""
       THEN /\ pc' = "raised"
            /\ raised' = AttributeError("Username is required to login")
            /\ sent' = <<>>
       ELSE /\ pc' = GetPasswordRSAPublicKey
            /\ raised' = NoError
            /\ sent' = <<get_steam_key_request(username)>>
    /\ UNCHANGED session
    /\ UNCHANGED outside_login

(***************************************************************************)
(* Any await of do_login: self.request raises instead of returning         *)
(***************************************************************************)
RequestRaises ==
    /\ ~NoCallRunning
    /\ \E exception \in RequestErrors : raised' = exception
    /\ pc' = "raised"
    /\ UNCHANGED <<session, arguments, auth_code, auth_code_type, steam_key,
                   json_data, auth_data, begun, server_time, tokens, transfer_info,
                   transfer_response, sent, result, received>>
    /\ UNCHANGED outside_login

(***************************************************************************)
(* get_steam_key resumes with the key answer; _new_login_data builds the   *)
(* begin request and do_login issues it                                    *)
(***************************************************************************)
SteamKey(response) ==
    [key |-> [n |-> int16(response.publickey_mod), e |-> int16(response.publickey_exp)],
     timestamp |-> int10(response.timestamp)]

\* the password put on the wire as it is
new_login_data_plain(name, secret, key, padding, mobile) ==
    [account_name |-> name,
     encrypted_password |-> secret,
     encryption_timestamp |-> key.timestamp,
     device_friendly_name |-> "stlib",
     persistence |-> 1,
     platform_type |-> IF mobile THEN "3" ELSE "2",
     website_id |-> IF mobile THEN "Mobile" ELSE "Community"]

new_login_data(name, secret, key, padding, mobile) ==
    [account_name |-> name,
     encrypted_password |-> encrypt_password(key, secret, padding),
     encryption_timestamp |-> key.timestamp,
     device_friendly_name |-> "stlib",
     persistence |-> 1,
     platform_type |-> IF mobile THEN "3" ELSE "2",
     website_id |-> IF mobile THEN "Mobile" ELSE "Community"]

\* an answer without key data not checked for: the begin request built on
\* the key in hand
get_steam_key_response_unchecked ==
    /\ pc = GetPasswordRSAPublicKey
    /\ \E answer \in KeyResponses, padding \in Paddings :
          IF answer.response = EmptyDict
          THEN /\ password # ""
               /\ pc' = BeginAuthSessionViaCredentials
               /\ sent' = Append(sent, request_params(
                      BeginAuthSessionViaCredentials, EmptyDict,
                      new_login_data(username, password, steam_key,
                                     padding, mobile_login)))
               /\ UNCHANGED <<steam_key, raised, received>>
          ELSE /\ steam_key' = SteamKey(answer.response)
               /\ received' = received \cup
                     {Received("timestamp", answer.response.timestamp)}
               /\ IF password = ""
                  THEN /\ pc' = "raised"
                       /\ raised' = AttributeError("Password is required to login")
                       /\ UNCHANGED sent
                  ELSE /\ pc' = BeginAuthSessionViaCredentials
                       /\ sent' = Append(sent, request_params(
                              BeginAuthSessionViaCredentials, EmptyDict,
                              new_login_data(username, password, steam_key',
                                             padding, mobile_login)))
                       /\ UNCHANGED raised
    /\ UNCHANGED <<session, arguments, auth_code, auth_code_type, json_data,
                   auth_data, begun, server_time, tokens, transfer_info,
                   transfer_response, result>>
    /\ UNCHANGED outside_login

get_steam_key_response ==
    /\ pc = GetPasswordRSAPublicKey
    /\ \E answer \in KeyResponses, padding \in Paddings :
          IF answer.response = EmptyDict
          THEN /\ pc' = "raised"
               /\ raised' = ValueError("Failed to get public key.")
               /\ UNCHANGED <<steam_key, sent, received>>
          ELSE /\ steam_key' = SteamKey(answer.response)
               /\ received' = received \cup
                     {Received("timestamp", answer.response.timestamp)}
               /\ IF password = ""
                  THEN /\ pc' = "raised"
                       /\ raised' = AttributeError("Password is required to login")
                       /\ UNCHANGED sent
                  ELSE /\ pc' = BeginAuthSessionViaCredentials
                       /\ sent' = Append(sent, request_params(
                              BeginAuthSessionViaCredentials, EmptyDict,
                              new_login_data(username, password, steam_key',
                                             padding, mobile_login)))
                       /\ UNCHANGED raised
    /\ UNCHANGED <<session, arguments, auth_code, auth_code_type, json_data,
                   auth_data, begun, server_time, tokens, transfer_info,
                   transfer_response, result>>
    /\ UNCHANGED outside_login

(***************************************************************************)
(* do_login after BeginAuthSessionViaCredentials answered                  *)
(***************************************************************************)
\* 'steamid' in json_data['response']
has_steamid(response) == "steamid" \in DOMAIN response

\* a caller's code taking precedence over the shared secret
needs_server_time_unless_code(secret, code) == secret # "" /\ code = <<>>

\* if shared_secret:
needs_server_time(secret, code) == secret # ""

\* the code submitted whether or not there is one
code_available_always(code) == TRUE

\* if auth_code:
code_available(code) == code # <<>>

update_request(cid, sid, code, code_type) ==
    request_params(UpdateAuthSessionWithSteamGuardCode, EmptyDict,
        [client_id |-> cid, steamid |-> sid, code |-> code,
         code_type |-> AuthCodeType_value(code_type)])

poll_request(cid, rid) ==
    request_params(PollAuthSessionStatus, EmptyDict,
        [client_id |-> cid, request_id |-> rid])

\* the machine token left out of the comparisons
ConfirmationRequirement_no_machine(allowed_confirmations) ==
    LET captcha_requested == Len(allowed_confirmations) > 1
        first == allowed_confirmations[1].confirmation_type
    IN  CASE first = 2 -> MailCodeError("Mail code requested", captcha_requested)
          [] first = 3 -> TwoFactorCodeError("Authenticator code requested",
                                             captcha_requested)
          [] OTHER -> NoError

\* a captcha asked for whenever several types are allowed
ConfirmationRequirement_by_length(allowed_confirmations) ==
    LET captcha_requested == Len(allowed_confirmations) > 1
        first == allowed_confirmations[1].confirmation_type
    IN  CASE captcha_requested \/ first = 6 -> CaptchaError("Captcha code requested")
          [] first = 2 -> MailCodeError("Mail code requested", captcha_requested)
          [] first = 3 -> TwoFactorCodeError("Authenticator code requested",
                                             captcha_requested)
          [] OTHER -> NoError

\* the length compared with 0 instead of 1
ConfirmationRequirement_off_by_one(allowed_confirmations) ==
    LET captcha_requested == Len(allowed_confirmations) > 0
        first == allowed_confirmations[1].confirmation_type
    IN  CASE first = 2 -> MailCodeError("Mail code requested", captcha_requested)
          [] first = 3 -> TwoFactorCodeError("Authenticator code requested",
                                             captcha_requested)
          [] first = 6 -> CaptchaError("Captcha code requested")
          [] OTHER -> NoError

\* the else branch of `if auth_code:`: the exception it raises, NoError when
\* it raises none and do_login goes on to poll
ConfirmationRequirement(allowed_confirmations) ==
    LET captcha_requested == Len(allowed_confirmations) > 1
        first == allowed_confirmations[1].confirmation_type
    IN  CASE first = 2 -> MailCodeError("Mail code requested", captcha_requested)
          [] first = 3 -> TwoFactorCodeError("Authenticator code requested",
                                             captcha_requested)
          [] first = 6 -> CaptchaError("Captcha code requested")
          [] OTHER -> NoError

\* from the code in hand to the next await: submit it, or surface the
\* requirement, or go on to poll.  (The else branch rebinds auth_code_type to
\* the first confirmation type and reads it only in the comparisons that
\* follow: that is `first` above, and the variable keeps the argument.)
confirm(code, cid, rid, sid, allowed_confirmations) ==
    /\ IF code_available(code)
       THEN /\ pc' = UpdateAuthSessionWithSteamGuardCode
            /\ sent' = Append(sent, update_request(cid, sid, code, auth_code_type))
            /\ UNCHANGED raised
       ELSE IF ConfirmationRequirement(allowed_confirmations).class # "none"
            THEN /\ pc' = "raised"
                 /\ raised' = ConfirmationRequirement(allowed_confirmations)
                 /\ UNCHANGED sent
            ELSE /\ pc' = PollAuthSessionStatus
                 /\ sent' = Append(sent, poll_request(cid, rid))
                 /\ UNCHANGED raised
    /\ UNCHANGED auth_code_type

\* the steamid check made only after the code was derived
begin_rejected_late ==
    IF shared_secret # ""
    THEN /\ pc' = GetServerInfo
         /\ sent' = Append(sent, request_params(GetServerInfo, EmptyDict, EmptyDict))
         /\ UNCHANGED <<auth_code, auth_code_type, begun, raised, received>>
    ELSE /\ pc' = "raised"
         /\ raised' = LoginError("Unable to log-in. Check your username and password.",
                                 FALSE)
         /\ UNCHANGED <<auth_code, auth_code_type, begun, sent, received>>

begin_rejected ==
    /\ pc' = "raised"
    /\ raised' = LoginError("Unable to log-in. Check your username and password.", FALSE)
    /\ UNCHANGED <<auth_code, auth_code_type, begun, sent, received>>

begin_accepted(response) ==
    /\ client_id' = response.client_id
    /\ request_id' = response.request_id
    /\ steamid' = response.steamid
    /\ received' = received \cup
          {Received("client_id", response.client_id),
           Received("request_id", response.request_id),
           Received("steamid", response.steamid)}
    /\ IF needs_server_time(shared_secret, auth_code)
       THEN /\ pc' = GetServerInfo
            /\ sent' = Append(sent, request_params(GetServerInfo, EmptyDict, EmptyDict))
            /\ UNCHANGED <<auth_code, auth_code_type, raised>>
       ELSE /\ confirm(auth_code, response.client_id, response.request_id,
                       response.steamid, response.allowed_confirmations)
            /\ UNCHANGED auth_code

BeginResponse ==
    /\ pc = BeginAuthSessionViaCredentials
    /\ \E answer \in BeginResponses :
          /\ json_data' = answer
          /\ IF has_steamid(answer.response)
             THEN begin_accepted(answer.response)
             ELSE begin_rejected
    /\ UNCHANGED <<session, arguments, steam_key, auth_data, server_time, tokens,
                   transfer_info, transfer_response, result>>
    /\ UNCHANGED outside_login

ServerInfoResponse ==
    /\ pc = GetServerInfo
    /\ \E server_data \in ServerInfoResponses :
          /\ server_time' = server_data.servertime
          /\ auth_code' = generate_steam_code(server_data.servertime, shared_secret)
          /\ confirm(auth_code', client_id, request_id, steamid,
                     json_data.response.allowed_confirmations)
    /\ UNCHANGED <<session, arguments, steam_key, json_data, auth_data, begun, tokens,
                   transfer_info, transfer_response, result, received>>
    /\ UNCHANGED outside_login

\* the answer to the submitted code not looked at
auth_accepted_always(response) == TRUE

\* auth_data['response'] is not empty
auth_accepted(response) == response # EmptyDict

UpdateResponse ==
    /\ pc = UpdateAuthSessionWithSteamGuardCode
    /\ \E answer \in UpdateResponses :
          /\ auth_data' = answer
          /\ IF auth_accepted(answer.response)
             THEN /\ pc' = PollAuthSessionStatus
                  /\ sent' = Append(sent, poll_request(client_id, request_id))
                  /\ UNCHANGED raised
             ELSE /\ pc' = "raised"
                  /\ raised' = LoginError("SteamGuard code is wrong", FALSE)
                  /\ UNCHANGED sent
    /\ UNCHANGED <<session, arguments, auth_code, auth_code_type, steam_key,
                   json_data, begun, server_time, tokens, transfer_info,
                   transfer_response, result, received>>
    /\ UNCHANGED outside_login

(***************************************************************************)
(* do_login after PollAuthSessionStatus answered                           *)
(***************************************************************************)
\* 'refresh_token' in json_data['response']
has_refresh_token(response) == "refresh_token" \in DOMAIN response

finalize_request(refresh, sess) ==
    request_params(finalizelogin, EmptyDict, [nonce |-> refresh, sessionid |-> sess])

\* polling again when no token came
poll_rejected_again ==
    IF Len(sent) < 8
    THEN /\ pc' = PollAuthSessionStatus
         /\ sent' = Append(sent, poll_request(client_id, request_id))
         /\ UNCHANGED <<tokens, raised, received>>
    ELSE /\ pc' = "raised"
         /\ raised' = LoginError("Tokens are not received. Try again.", FALSE)
         /\ UNCHANGED <<tokens, sent, received>>

poll_rejected ==
    /\ pc' = "raised"
    /\ raised' = LoginError("Tokens are not received. Try again.", FALSE)
    /\ UNCHANGED <<tokens, sent, received>>

\* a second sessionid drawn for the finalize request
poll_accepted_two_ids(response, seed) ==
    /\ refresh_token' = response.refresh_token
    /\ access_token' = response.access_token
    /\ received' = received \cup {Received("refresh_token", response.refresh_token)}
    /\ sessionid' = random_choices(HexDigits, 24, seed)
    /\ pc' = finalizelogin
    /\ sent' = Append(sent, finalize_request(response.refresh_token,
                                             random_choices(HexDigits, 24, seed + 1)))
    /\ UNCHANGED raised

poll_accepted(response, seed) ==
    /\ refresh_token' = response.refresh_token
    /\ access_token' = response.access_token
    /\ received' = received \cup {Received("refresh_token", response.refresh_token)}
    /\ sessionid' = random_choices(HexDigits, 24, seed)
    /\ pc' = finalizelogin
    /\ sent' = Append(sent, finalize_request(response.refresh_token, sessionid'))
    /\ UNCHANGED raised

PollResponse ==
    /\ pc = PollAuthSessionStatus
    /\ \E answer \in PollResponses, seed \in Seeds :
          /\ json_data' = answer
          /\ IF has_refresh_token(answer.response)
             THEN poll_accepted(answer.response, seed)
             ELSE poll_rejected
    /\ UNCHANGED <<session, arguments, auth_code, auth_code_type, steam_key,
                   auth_data, begun, server_time, transfer_info, transfer_response,
                   result>>
    /\ UNCHANGED outside_login

(***************************************************************************)
(* do_login after jwt/finalizelogin answered: the transfer loop            *)
(***************************************************************************)
transfer_request(item, sid) ==
    request_params(item.url, EmptyDict,
        [nonce |-> item.params.nonce, auth |-> item.params.auth, steamID |-> sid])

\* the loop submitting its first item at every turn
transfer_loop_first(items, i, done) ==
    IF i <= Len(items)
    THEN /\ pc' = "transfer"
         /\ sent' = Append(sent, transfer_request(items[1], steamid))
         /\ UNCHANGED result
    ELSE /\ pc' = "returned"
         /\ result' = LoginData(steamid, client_id, sessionid, refresh_token,
                                access_token, done)
         /\ UNCHANGED sent

\* the loop from its i-th item on: the item's request, or the return after
\* the last one
transfer_loop(items, i, done) ==
    IF i <= Len(items)
    THEN /\ pc' = "transfer"
         /\ sent' = Append(sent, transfer_request(items[i], steamid))
         /\ UNCHANGED result
    ELSE /\ pc' = "returned"
         /\ result' = LoginData(steamid, client_id, sessionid, refresh_token,
                                access_token, done)
         /\ UNCHANGED sent

FinalizeResponse ==
    /\ pc = finalizelogin
    /\ \E answer \in FinalizeResponses :
          /\ json_data' = answer
          /\ transfer_info' = <<>>
          /\ transfer_loop(answer.transfer_info, 1, <<>>)
    /\ UNCHANGED <<session, arguments, auth_code, auth_code_type, steam_key,
                   auth_data, begun, server_time, tokens, transfer_response,
                   raised, received>>
    /\ UNCHANGED outside_login

\* any cookie taken for the login cookie
cookie_set_any(response) == response.cookies # {}

\* 'steamLoginSecure' in response.cookies
cookie_set(response) == "steamLoginSecure" \in response.cookies

TransferResponse ==
    /\ pc = "transfer"
    /\ LET items == json_data.transfer_info
           i == Len(transfer_info) + 1
           item == items[i]
       IN  \E response \in TransferResponses :
             /\ transfer_response' = response
             /\ IF cookie_set(response)
                THEN /\ transfer_info' = Append(transfer_info,
                            TransferInfo(item.url, item.params.nonce, item.params.auth))
                     /\ transfer_loop(items, i + 1, transfer_info')
                     /\ UNCHANGED raised
                ELSE /\ pc' = "raised"
                     /\ raised' = LoginError("Error setting login cookies", FALSE)
                     /\ UNCHANGED <<transfer_info, sent, result>>
    /\ UNCHANGED <<session, arguments, auth_code, auth_code_type, steam_key,
                   json_data, auth_data, begun, server_time, tokens, received>>
    /\ UNCHANGED outside_login

Next ==
    \/ SetUsername
    \/ SetPassword
    \/ do_login
    \/ RequestRaises
    \/ get_steam_key_response
    \/ BeginResponse
    \/ ServerInfoResponse
    \/ UpdateResponse
    \/ PollResponse
    \/ FinalizeResponse
    \/ TransferResponse

Spec == Init /\ [][Next]_vars

(***************************************************************************)
(* stlib.utils.Base.request: the loop of attempts around the http          *)
(* session's request.  One call at a time; an action is the run of the     *)
(* coroutine from one await to the next.                                   *)
(***************************************************************************)
\* for try_count in range(4)
Tries == 4
\* try_count < 3
LastRecovery == 3
\* asyncio.sleep(5)
RecoverySeconds == 5

ClientConnectorError == [class |-> "ClientConnectorError"]
ClientResponseError(status) == [class |-> "ClientResponseError", status |-> status]
UnboundLocalError(name) == [class |-> "UnboundLocalError", name |-> name]
SessionExpired == LoginError("User are not logged in", FALSE)

\* a Location text, in pieces: `piece in text` is membership among them
NoLocation == <<>>
LoginPage == <<"https://steamcommunity.com/", "login/home/?goto=", "market">>
AccountPage == <<"https://store.steampowered.com/", "account">>

in_text(piece, text) == \E k \in DOMAIN text : text[k] = piece

\* what the http session answers with when it raises nothing: with
\* raise_for_status on, a status below 400.  history holds the Location
\* header of each redirect the http session followed, first hop first.
HttpResponses ==
    { [status |-> st, history |-> h, Location |-> l, cookies |-> {}, content |-> "text"] :
        st \in {200, 302},
        h \in {<<>>, <<LoginPage>>, <<AccountPage>>, <<AccountPage, LoginPage>>},
        l \in {NoLocation, LoginPage} }

\* the statuses the http session raises ClientResponseError for
ErrorStatuses == {400, 404, 499, 500, 503}

\* how one attempt ends
AttemptOutcomes ==
    {[kind |-> "response", response |-> r] : r \in HttpResponses}
    \cup {[kind |-> "ClientConnectorError"]}
    \cup {[kind |-> "ClientResponseError", status |-> st] : st \in ErrorStatuses}

\* entries of http_log
Attempt(outcome) == [event |-> "attempt", outcome |-> outcome]
Sleep(seconds) == [event |-> "sleep", seconds |-> seconds]

FormData == {EmptyDict, [op |-> "has_phone"]}

Response(status, cookies, content) ==
    [status |-> status, cookies |-> cookies, content |-> content]

request ==
    /\ request_pc \in {"idle", "returned", "raised"}
    /\ \E data \in FormData, recovery \in BOOLEAN :
          /\ http_request' = request_params("url", EmptyDict, data)
          /\ auto_recovery' = recovery
    /\ try_count' = 0
    /\ request_pc' = "attempt"
    /\ http_log' = <<>>
    /\ request_result' = Unbound
    /\ request_raised' = NoError
    /\ UNCHANGED outside_request

\* the location the redirect check looks at
location(response) ==
    IF Len(response.history) >= 1 THEN response.history[1] ELSE response.Location

\* one turn more than range(4) has
next_try_extra(count) ==
    IF count + 1 <= Tries
    THEN /\ try_count' = count + 1
         /\ request_pc' = "attempt"
         /\ UNCHANGED <<request_result, request_raised>>
    ELSE IF request_result = Unbound
         THEN /\ request_pc' = "raised"
              /\ request_raised' = UnboundLocalError("result")
              /\ UNCHANGED <<try_count, request_result>>
         ELSE /\ request_pc' = "returned"
              /\ UNCHANGED <<try_count, request_result, request_raised>>

\* the for statement after a turn that neither broke out nor raised: the
\* next turn, or, the range exhausted, `return result`
next_try(count) ==
    IF count + 1 < Tries
    THEN /\ try_count' = count + 1
         /\ request_pc' = "attempt"
         /\ UNCHANGED <<request_result, request_raised>>
    ELSE IF request_result = Unbound
         THEN /\ request_pc' = "raised"
              /\ request_raised' = UnboundLocalError("result")
              /\ UNCHANGED <<try_count, request_result>>
         ELSE /\ request_pc' = "returned"
              /\ UNCHANGED <<try_count, request_result, request_raised>>

\* only 400 taken for a client error
is_client_error_400(status) == status = 400

\* 400 <= exception.status <= 499
is_client_error(status) == 400 <= status /\ status <= 499

\* no recovery at all
may_recover_never(recovery, count) == FALSE

\* one recovery only
may_recover_once(recovery, count) == recovery /\ count < 1

\* auto_recovery and try_count < 3
may_recover(recovery, count) == recovery /\ count < LastRecovery

raise(exception) ==
    /\ request_pc' = "raised"
    /\ request_raised' = exception
    /\ UNCHANGED <<try_count, request_result>>

\* await asyncio.sleep(5)
sleep(seconds, log) ==
    /\ request_pc' = "sleep"
    /\ http_log' = Append(log, Sleep(seconds))
    /\ UNCHANGED <<try_count, request_result, request_raised>>

\* the http session's request returned or raised
AttemptEnds ==
    /\ request_pc = "attempt"
    /\ \E outcome \in AttemptOutcomes :
          LET log == Append(http_log, Attempt(outcome))
          IN  CASE outcome.kind = "response" ->
                     /\ http_log' = log
                     /\ IF in_text("login/home/?goto=", location(outcome.response))
                        THEN raise(SessionExpired)
                        ELSE /\ request_result' = Response(outcome.response.status,
                                                           outcome.response.cookies,
                                                           outcome.response.content)
                             /\ request_pc' = "returned"
                             /\ UNCHANGED <<try_count, request_raised>>
                [] outcome.kind = "ClientConnectorError" ->
                     IF auto_recovery
                     THEN sleep(RecoverySeconds, log)
                     ELSE /\ http_log' = log
                          /\ next_try(try_count)
                [] outcome.kind = "ClientResponseError" ->
                     IF is_client_error(outcome.status)
                     THEN /\ http_log' = log
                          /\ raise(ClientResponseError(outcome.status))
                     ELSE IF may_recover(auto_recovery, try_count)
                          THEN sleep(RecoverySeconds, log)
                          ELSE /\ http_log' = log
                               /\ raise(ClientResponseError(outcome.status))
    /\ UNCHANGED <<http_request, auto_recovery, outside_request>>

\* asyncio.sleep returned: continue
SleepEnds ==
    /\ request_pc = "sleep"
    /\ next_try(try_count)
    /\ UNCHANGED <<http_request, auto_recovery, http_log, outside_request>>

RequestNext ==
    \/ request
    \/ AttemptEnds
    \/ SleepEnds

RequestSpec == Init /\ [][RequestNext]_vars

(***************************************************************************)
(* stlib.utils.Base.new_session, destroy_session and get_session: the      *)
(* registry of module instances and http sessions by session index.        *)
(* new_session has no await and get_session is no coroutine; destroy_session*)
(* is suspended once, at `await http_session.close()`, and other calls run *)
(* meanwhile.                                                              *)
(***************************************************************************)
MaxInstances == 2
MaxHttpSessions == 1

IndexError == [class |-> "IndexError"]
KeyError == [class |-> "KeyError"]
Suspended == [class |-> "suspended"]

\* Base.__init__ of a new object: _http_session = http_session.  The
\* object is told from every other by the class and index it was created
\* for and by how many were created there before it.
Instance(cls, session_index, generation, http_session) ==
    [class |-> cls, created_at |-> session_index, generation |-> generation,
     http_session |-> http_session]

\* aiohttp.ClientSession(raise_for_status=True), told from every other in
\* the same way, and the http sessions a caller makes and hands over in
\* kwargs
ClientSession(session_index, generation) ==
    [made_by |-> "new_session", created_at |-> session_index,
     generation |-> generation]
CallerSessions == {[made_by |-> "caller", created_at |-> 0, generation |-> 1]}

\* how many instances, and how many ClientSessions, were created so far
instances ==
    LET RECURSIVE total(_)
        total(slots) ==
            IF slots = {} THEN 0
            ELSE LET slot == CHOOSE x \in slots : TRUE
                 IN  latest[slot[1]][slot[2]].generation + total(slots \ {slot})
    IN  total(Classes \X Indexes)
client_sessions ==
    LET RECURSIVE total(_)
        total(indexes) ==
            IF indexes = {} THEN 0
            ELSE LET i == CHOOSE x \in indexes : TRUE
                 IN  http_sessions[i] + total(indexes \ {i})
    IN  total(Indexes)
Kwargs == {EmptyDict} \cup {[http_session |-> h] : h \in CallerSessions}

\* dict[key] = value, and del dict[key]
set_item(dict, key, value) ==
    [k \in DOMAIN dict \cup {key} |-> IF k = key THEN value ELSE dict[k]]
del_item(dict, key) == [k \in DOMAIN dict \ {key} |-> dict[k]]

\* the test left out: an instance is never found in the way
is_registered_never(cache, cache_name, session_index) == FALSE

\* cache_name in _session_cache and session_index in _session_cache[cache_name]
is_registered(cache, cache_name, session_index) ==
    /\ cache_name \in DOMAIN cache
    /\ session_index \in DOMAIN cache[cache_name]

\* what a call returned or raised, or that it is suspended
Call(op, cls, session_index, resumed, outcome) ==
    [op |-> op, class |-> cls, session_index |-> session_index,
     no_fail |-> FALSE, resumed |-> resumed, outcome |-> outcome]

new_session ==
    \E cls \in Classes, session_index \in Indexes, kwargs \in Kwargs :
       LET cache_name == cls
           with_class == IF cache_name \in DOMAIN session_cache
                         THEN session_cache
                         ELSE set_item(session_cache, cache_name, EmptyDict)
           with_http == IF "http_session" \in DOMAIN with_class
                        THEN with_class
                        ELSE set_item(with_class, "http_session", EmptyDict)
           given == "http_session" \in DOMAIN kwargs
           reused == session_index \in DOMAIN with_http["http_session"]
           http_session ==
               IF given THEN kwargs.http_session
               ELSE IF reused THEN with_http["http_session"][session_index]
               ELSE ClientSession(session_index, http_sessions[session_index] + 1)
           cache == set_item(with_http, "http_session",
                             set_item(with_http["http_session"], session_index,
                                      http_session))
           instance == Instance(cls, session_index,
                                latest[cls][session_index].generation + 1,
                                http_session)
       IN  /\ (~given /\ ~reused) => client_sessions < MaxHttpSessions
           /\ http_sessions' =
                 IF ~given /\ ~reused
                 THEN [http_sessions EXCEPT ![session_index] = @ + 1]
                 ELSE http_sessions
           /\ IF is_registered(cache, cache_name, session_index)
              THEN /\ session_cache' = cache
                   /\ call' = Call("new_session", cls, session_index, FALSE, IndexError)
                   /\ UNCHANGED latest
              ELSE /\ instances < MaxInstances
                   /\ session_cache' =
                         set_item(cache, cache_name,
                                  set_item(cache[cache_name], session_index, instance))
                   /\ latest' = [latest EXCEPT ![cls][session_index] = instance]
                   /\ call' = Call("new_session", cls, session_index, FALSE, instance)
           /\ UNCHANGED <<closed, destroying, destroyed, outside_registry>>

\* raises whatever no_fail is
raises_when_missing_always(no_fail) == TRUE

\* if not no_fail: raise IndexError
raises_when_missing(no_fail) == ~no_fail

\* destroy_session up to `await http_session.close()`: close marks the
\* http session closed before it is first suspended
destroy_session ==
    \E cls \in Classes, session_index \in Indexes, no_fail \in BOOLEAN :
       LET cache_name == cls IN
       IF is_registered(session_cache, cache_name, session_index)
       THEN LET instance == session_cache[cache_name][session_index]
                cache == set_item(session_cache, cache_name,
                                  del_item(session_cache[cache_name], session_index))
            IN  /\ session_cache' = cache
                /\ destroyed' = destroyed \cup {instance}
                /\ IF session_index \in DOMAIN cache["http_session"]
                   THEN LET http_session == cache["http_session"][session_index]
                        IN  /\ closed' = closed \cup {http_session}
                            /\ destroying' = destroying \cup
                                  {[class |-> cls, session_index |-> session_index,
                                    instance |-> instance]}
                            /\ call' = Call("destroy_session", cls, session_index,
                                            FALSE, Suspended)
                   ELSE /\ call' = Call("destroy_session", cls, session_index,
                                        FALSE, KeyError)
                        /\ UNCHANGED <<closed, destroying>>
                /\ UNCHANGED <<http_sessions, latest, outside_registry>>
       ELSE /\ call' = [Call("destroy_session", cls, session_index, FALSE,
                             IF raises_when_missing(no_fail) THEN IndexError
                             ELSE None)
                          EXCEPT !.no_fail = no_fail]
            /\ UNCHANGED <<session_cache, closed, destroying, http_sessions,
                           latest, destroyed, outside_registry>>

\* http_session.close() returned: del _session_cache['http_session'][session_index]
close_returns ==
    \E frame \in destroying :
       /\ destroying' = destroying \ {frame}
       /\ IF frame.session_index \in DOMAIN session_cache["http_session"]
          THEN /\ session_cache' =
                     set_item(session_cache, "http_session",
                              del_item(session_cache["http_session"],
                                       frame.session_index))
               /\ call' = Call("destroy_session", frame.class,
                               frame.session_index, TRUE, None)
          ELSE /\ call' = Call("destroy_session", frame.class,
                               frame.session_index, TRUE, KeyError)
               /\ UNCHANGED session_cache
       /\ UNCHANGED <<closed, http_sessions, latest, destroyed,
                      outside_registry>>

\* the instance of another class at the index is as good
cached_session_any_class(cache, cache_name, session_index) ==
    IF \E name \in Classes : is_registered(cache, name, session_index)
    THEN cache[CHOOSE name \in Classes :
                  is_registered(cache, name, session_index)][session_index]
    ELSE IndexError

\* what get_session returns or raises
cached_session(cache, cache_name, session_index) ==
    IF ~is_registered(cache, cache_name, session_index)
    THEN IndexError
    ELSE cache[cache_name][session_index]

get_session ==
    \E cls \in Classes, session_index \in Indexes :
       /\ call' = Call("get_session", cls, session_index, FALSE,
                       cached_session(session_cache, cls, session_index))
       /\ UNCHANGED <<session_cache, closed, destroying, http_sessions,
                      latest, destroyed, outside_registry>>

RegistryNext ==
    \/ new_session
    \/ destroy_session
    \/ close_returns
    \/ get_session

RegistrySpec == Init /\ [][RegistryNext]_vars

(***************************************************************************)
(* stlib.community.Community.get_confirmations and send_confirmation: one  *)
(* session, one call at a time; an action is the run of the coroutine from *)
(* one await to the next.  Parsing the html of the details is left out: a  *)
(* trade (type 1 or 2) needs get_item_name for the items the html lists.   *)
(***************************************************************************)
getlist == "getlist"
details(id) == "details/" \o ToString(id)
ajaxop == "ajaxop"

Actions == {"allow", "cancel"}
TradeIds == {7}
TradeKeys == {4711}

\* entries of mobileconf_log
Sent(url, params) == [event |-> "sent", url |-> url, params |-> params]
Answered(url, answer) == [event |-> "answered", url |-> url, answer |-> answer]

\* the Confirmation built for an item, as far as the model goes
Confirmation(item) == [id |-> item.id, type |-> item.type]

ListResponses ==
    {[success |-> FALSE]}
    \cup {[success |-> TRUE, conf |-> c] : c \in SeqsUpTo(ListedConfirmations, MaxListed)}
\* names: how many trade items the html of the details lists
DetailsResponses == {[success |-> FALSE]} \cup {[success |-> TRUE, names |-> n] : n \in {0, 1}}
AjaxopResponses == {[success |-> TRUE], [success |-> FALSE]}

\* the tag each sub-operation passes to _new_mobileconf_query:
\* get_confirmations for the list and for the details of an item,
\* send_confirmation for the approval or refusal
list_tag == "conf"
details_tag(id) == "details" \o ToString(id)
send_tag == "conf"

\* {**params, **extra_params}
merged(params, extra_params) ==
    [k \in DOMAIN params \cup DOMAIN extra_params |->
        IF k \in DOMAIN extra_params THEN extra_params[k] ELSE params[k]]

\* _new_mobileconf_query up to its await
new_query(site, tag, log) ==
    /\ mobileconf_site' = site
    /\ mobileconf_tag' = tag
    /\ mobileconf_pc' = GetServerInfo
    /\ mobileconf_log' = Append(log, Sent(GetServerInfo, EmptyDict))

get_confirmations ==
    /\ mobileconf_pc \in {"idle", "returned", "raised"}
    /\ \E identity_secret \in IdentitySecrets, sid \in SteamIds, deviceid \in DeviceIds :
          mobileconf_args' = [op |-> "get_confirmations",
                              identity_secret |-> identity_secret,
                              steamid |-> sid, deviceid |-> deviceid]
    /\ new_query(getlist, list_tag, <<>>)
    /\ mobileconf_query' = EmptyDict
    /\ listed' = <<>>
    /\ listed_at' = 0
    /\ item_names' = 0
    /\ confirmations' = <<>>
    /\ mobileconf_result' = None
    /\ mobileconf_raised' = NoError
    /\ UNCHANGED outside_signer

send_confirmation ==
    /\ mobileconf_pc \in {"idle", "returned", "raised"}
    /\ \E identity_secret \in IdentitySecrets, sid \in SteamIds, deviceid \in DeviceIds,
          trade_id \in TradeIds, trade_key \in TradeKeys, action \in Actions :
          mobileconf_args' = [op |-> "send_confirmation",
                              identity_secret |-> identity_secret,
                              steamid |-> sid, deviceid |-> deviceid,
                              trade_id |-> trade_id, trade_key |-> trade_key,
                              action |-> action]
    /\ new_query(ajaxop, send_tag, <<>>)
    /\ mobileconf_query' = EmptyDict
    /\ listed' = <<>>
    /\ listed_at' = 0
    /\ item_names' = 0
    /\ confirmations' = <<>>
    /\ mobileconf_result' = None
    /\ mobileconf_raised' = NoError
    /\ UNCHANGED outside_signer

\* a request of the call raises (transport failure, session expired)
MobileconfRequestRaises ==
    /\ mobileconf_pc \in {GetServerInfo, "getlist", "details", "get_item_name", "ajaxop"}
    /\ mobileconf_pc' = "raised"
    /\ mobileconf_raised' = ClientConnectorError
    /\ UNCHANGED <<mobileconf_args, mobileconf_site, mobileconf_tag,
                   mobileconf_query, listed, listed_at, item_names,
                   confirmations, mobileconf_log, mobileconf_result,
                   outside_signer>>

\* the params of the request the query was built for
params_for(site, query, args) ==
    IF site = ajaxop
    THEN merged(query, [cid |-> args.trade_id, ck |-> args.trade_key, op |-> args.action])
    ELSE query

\* the url of that request
url_for(site, position) ==
    IF site = "details" THEN details(listed[position].id) ELSE site

\* GetServerInfo answered: _new_mobileconf_query returns the query and the
\* request it was built for is sent
ServerTimeResponse ==
    /\ mobileconf_pc = GetServerInfo
    /\ \E answer \in ServerInfoResponses :
          LET query == new_mobileconf_query(mobileconf_args.deviceid,
                                            mobileconf_args.steamid,
                                            mobileconf_args.identity_secret,
                                            mobileconf_tag, answer.servertime)
          IN  /\ mobileconf_query' = query
              /\ mobileconf_log' =
                    mobileconf_log
                    \o <<Answered(GetServerInfo, answer),
                         Sent(url_for(mobileconf_site, listed_at),
                              params_for(mobileconf_site, query, mobileconf_args))>>
    /\ mobileconf_pc' = mobileconf_site
    /\ UNCHANGED <<mobileconf_args, mobileconf_site, mobileconf_tag, listed,
                   listed_at, item_names, confirmations, mobileconf_result,
                   mobileconf_raised, outside_signer>>

\* the details of every item asked with the query of the list
for_confirmation_one_query(conf, position, done, log) ==
    /\ listed_at' = position
    /\ confirmations' = done
    /\ IF position > Len(conf)
       THEN /\ mobileconf_pc' = "returned"
            /\ mobileconf_result' = done
            /\ mobileconf_log' = log
            /\ UNCHANGED <<mobileconf_site, mobileconf_tag>>
       ELSE /\ mobileconf_site' = "details"
            /\ mobileconf_pc' = "details"
            /\ mobileconf_log' =
                  Append(log, Sent(details(conf[position].id), mobileconf_query))
            /\ UNCHANGED <<mobileconf_tag, mobileconf_result>>

\* the for statement of get_confirmations at `position` of the list: the
\* query for the item's details, or past the last item `return confirmations`
for_confirmation(conf, position, done, log) ==
    /\ listed_at' = position
    /\ confirmations' = done
    /\ IF position > Len(conf)
       THEN /\ mobileconf_pc' = "returned"
            /\ mobileconf_result' = done
            /\ mobileconf_log' = log
            /\ UNCHANGED <<mobileconf_site, mobileconf_tag>>
       ELSE /\ new_query("details", details_tag(conf[position].id), log)
            /\ UNCHANGED mobileconf_result

GetListResponse ==
    /\ mobileconf_pc = "getlist"
    /\ \E answer \in ListResponses :
          LET log == Append(mobileconf_log, Answered(getlist, answer))
          IN  IF ~answer.success
              THEN /\ mobileconf_pc' = "raised"
                   /\ mobileconf_raised' = LoginError("User is not logged in", FALSE)
                   /\ mobileconf_log' = log
                   /\ UNCHANGED <<mobileconf_site, mobileconf_tag, listed, listed_at,
                                  confirmations, mobileconf_result>>
              ELSE /\ listed' = answer.conf
                   /\ for_confirmation(answer.conf, 1, <<>>, log)
                   /\ UNCHANGED mobileconf_raised
    /\ UNCHANGED <<mobileconf_args, mobileconf_query, item_names, outside_signer>>

\* if confirmation['type'] in (1, 2)
is_trade(item) == item.type \in {1, 2}

DetailsResponse ==
    /\ mobileconf_pc = "details"
    /\ \E answer \in DetailsResponses :
          LET item == listed[listed_at]
              log == Append(mobileconf_log, Answered(details(item.id), answer))
          IN  IF ~answer.success
              THEN /\ mobileconf_pc' = "raised"
                   /\ mobileconf_raised' =
                         AttributeError("Unable to get details for confirmation")
                   /\ mobileconf_log' = log
                   /\ UNCHANGED <<mobileconf_site, mobileconf_tag, listed_at,
                                  item_names, confirmations, mobileconf_result>>
              ELSE IF is_trade(item) /\ answer.names > 0
                   THEN /\ mobileconf_pc' = "get_item_name"
                        /\ item_names' = answer.names
                        /\ mobileconf_log' = Append(log, Sent("get_item_name", EmptyDict))
                        /\ UNCHANGED <<mobileconf_site, mobileconf_tag, listed_at,
                                       confirmations, mobileconf_result,
                                       mobileconf_raised>>
                   ELSE /\ for_confirmation(listed, listed_at + 1,
                                            Append(confirmations, Confirmation(item)),
                                            log)
                        /\ UNCHANGED <<item_names, mobileconf_raised>>
    /\ UNCHANGED <<mobileconf_args, mobileconf_query, listed, outside_signer>>

\* get_item_name returned the name of one item of the trade
ItemNameResponse ==
    /\ mobileconf_pc = "get_item_name"
    /\ item_names' = item_names - 1
    /\ LET log == Append(mobileconf_log, Answered("get_item_name", EmptyDict))
       IN  IF item_names > 1
           THEN /\ mobileconf_log' = Append(log, Sent("get_item_name", EmptyDict))
                /\ UNCHANGED <<mobileconf_pc, mobileconf_site, mobileconf_tag,
                               listed_at, confirmations, mobileconf_result>>
           ELSE for_confirmation(listed, listed_at + 1,
                                 Append(confirmations, Confirmation(listed[listed_at])),
                                 log)
    /\ UNCHANGED <<mobileconf_args, mobileconf_query, listed, mobileconf_raised,
                   outside_signer>>

AjaxopResponse ==
    /\ mobileconf_pc = ajaxop
    /\ \E answer \in AjaxopResponses :
          /\ mobileconf_result' = answer
          /\ mobileconf_log' = Append(mobileconf_log, Answered(ajaxop, answer))
    /\ mobileconf_pc' = "returned"
    /\ UNCHANGED <<mobileconf_args, mobileconf_site, mobileconf_tag,
                   mobileconf_query, listed, listed_at, item_names,
                   confirmations, mobileconf_raised, outside_signer>>

SignerNext ==
    \/ get_confirmations
    \/ send_confirmation
    \/ MobileconfRequestRaises
    \/ ServerTimeResponse
    \/ GetListResponse
    \/ DetailsResponse
    \/ ItemNameResponse
    \/ AjaxopResponse

SignerSpec == Init /\ [][SignerNext]_vars

(***************************************************************************)
(* Two negotiations at once: Login sessions created by new_session at      *)
(* session indexes 0 and 1, for two accounts, each running do_login.  The  *)
(* attributes are the instance's and the locals the coroutine's, so each   *)
(* negotiation has its own frame; asyncio runs one coroutine at a time and *)
(* may go to the other one at every await.  The steps of a negotiation are *)
(* the actions of do_login above.                                          *)
(***************************************************************************)
\* the two accounts, by session index + 1, and what the server hands out to
\* each
Accounts ==
    << [username |-> "alice", password |-> "hunter2", timestamp |-> "1000",
        client_id |-> "c1", request_id |-> "r1", steamid |-> "76561198000000001",
        refresh_token |-> "rt1", seed |-> 1],
       [username |-> "bob", password |-> "hunter3", timestamp |-> "2000",
        client_id |-> "c2", request_id |-> "r2", steamid |-> "76561198000000002",
        refresh_token |-> "rt2", seed |-> 7] >>

\* the attributes and the frame of the session that runs
Frame ==
    [username |-> username,
     password |-> password,
     pc |-> pc,
     original_fargs |-> original_fargs,
     shared_secret |-> shared_secret,
     auth_code |-> auth_code,
     auth_code_type |-> auth_code_type,
     mobile_login |-> mobile_login,
     steam_key |-> steam_key,
     json_data |-> json_data,
     auth_data |-> auth_data,
     client_id |-> client_id,
     request_id |-> request_id,
     steamid |-> steamid,
     server_time |-> server_time,
     refresh_token |-> refresh_token,
     access_token |-> access_token,
     sessionid |-> sessionid,
     transfer_info |-> transfer_info,
     transfer_response |-> transfer_response,
     sent |-> sent,
     received |-> received,
     result |-> result,
     raised |-> raised]

\* the session that runs is in the state `frame`
Started(frame) ==
    /\ username = frame.username
    /\ password = frame.password
    /\ pc = frame.pc
    /\ original_fargs = frame.original_fargs
    /\ shared_secret = frame.shared_secret
    /\ auth_code = frame.auth_code
    /\ auth_code_type = frame.auth_code_type
    /\ mobile_login = frame.mobile_login
    /\ steam_key = frame.steam_key
    /\ json_data = frame.json_data
    /\ auth_data = frame.auth_data
    /\ client_id = frame.client_id
    /\ request_id = frame.request_id
    /\ steamid = frame.steamid
    /\ server_time = frame.server_time
    /\ refresh_token = frame.refresh_token
    /\ access_token = frame.access_token
    /\ sessionid = frame.sessionid
    /\ transfer_info = frame.transfer_info
    /\ transfer_response = frame.transfer_response
    /\ sent = frame.sent
    /\ received = frame.received
    /\ result = frame.result
    /\ raised = frame.raised

\* the client id and request id kept in one place for both sessions
Resume_shared_ids(frame) ==
    /\ username' = frame.username
    /\ password' = frame.password
    /\ pc' = frame.pc
    /\ original_fargs' = frame.original_fargs
    /\ shared_secret' = frame.shared_secret
    /\ auth_code' = frame.auth_code
    /\ auth_code_type' = frame.auth_code_type
    /\ mobile_login' = frame.mobile_login
    /\ steam_key' = frame.steam_key
    /\ json_data' = frame.json_data
    /\ auth_data' = frame.auth_data
    /\ client_id' = client_id
    /\ request_id' = request_id
    /\ steamid' = frame.steamid
    /\ server_time' = frame.server_time
    /\ refresh_token' = frame.refresh_token
    /\ access_token' = frame.access_token
    /\ sessionid' = frame.sessionid
    /\ transfer_info' = frame.transfer_info
    /\ transfer_response' = frame.transfer_response
    /\ sent' = frame.sent
    /\ received' = frame.received
    /\ result' = frame.result
    /\ raised' = frame.raised

\* the coroutine of the session in the state `frame` goes on
Resume(frame) ==
    /\ username' = frame.username
    /\ password' = frame.password
    /\ pc' = frame.pc
    /\ original_fargs' = frame.original_fargs
    /\ shared_secret' = frame.shared_secret
    /\ auth_code' = frame.auth_code
    /\ auth_code_type' = frame.auth_code_type
    /\ mobile_login' = frame.mobile_login
    /\ steam_key' = frame.steam_key
    /\ json_data' = frame.json_data
    /\ auth_data' = frame.auth_data
    /\ client_id' = frame.client_id
    /\ request_id' = frame.request_id
    /\ steamid' = frame.steamid
    /\ server_time' = frame.server_time
    /\ refresh_token' = frame.refresh_token
    /\ access_token' = frame.access_token
    /\ sessionid' = frame.sessionid
    /\ transfer_info' = frame.transfer_info
    /\ transfer_response' = frame.transfer_response
    /\ sent' = frame.sent
    /\ received' = frame.received
    /\ result' = frame.result
    /\ raised' = frame.raised

\* at an await the event loop goes to the coroutine of the other session
Switch ==
    /\ running' = 1 - running
    /\ parked' = Frame
    /\ Resume(parked)
    /\ UNCHANGED outside_sessions

\* the calls and answers looked at: each session logs in with no code, with
\* or without the shared secret, and the server answers a session with
\* the values of its account: its key, its ids behind a device code
\* requirement, server time 59, its tokens, both transfer descriptors
OwnAnswers ==
    LET own == Accounts[running + 1] IN
    /\ original_fargs \in
          {[shared_secret |-> secret, auth_code |-> <<>>,
            auth_code_type |-> "device", mobile_login |-> FALSE] :
             secret \in {"", "c2VjcmV0"}}
    /\ \A r \in received :
          r.value \in {own.timestamp, own.client_id, own.request_id, own.steamid,
                       own.refresh_token}
    /\ \A i \in DOMAIN sent :
          "encrypted_password" \in DOMAIN sent[i].data =>
             sent[i].data.encrypted_password = encrypt_password(steam_key, password, "ps1")
    /\ ("response" \in DOMAIN json_data
           /\ "allowed_confirmations" \in DOMAIN json_data.response) =>
          json_data.response.allowed_confirmations = <<[confirmation_type |-> 3]>>
    /\ server_time \in {0, 59}
    /\ sessionid \in {<<>>, random_choices(HexDigits, 24, own.seed)}
    /\ "transfer_info" \in DOMAIN json_data => Len(json_data.transfer_info) = 2

ConcurrentInit ==
    /\ TransportIdle
    /\ RegistryEmpty
    /\ SignerIdle
    /\ NothingGiven
    /\ PagingIdle
    /\ running = 0
    /\ Started(IdleFrame(Accounts[1].username, Accounts[1].password))
    /\ parked = IdleFrame(Accounts[2].username, Accounts[2].password)

ConcurrentNext ==
    \/ Switch
    \/ do_login /\ OwnAnswers'
    \/ RequestRaises /\ OwnAnswers'
    \/ get_steam_key_response /\ OwnAnswers'
    \/ BeginResponse /\ OwnAnswers'
    \/ ServerInfoResponse /\ OwnAnswers'
    \/ UpdateResponse /\ OwnAnswers'
    \/ PollResponse /\ OwnAnswers'
    \/ FinalizeResponse /\ OwnAnswers'
    \/ TransferResponse /\ OwnAnswers'

ConcurrentSpec == ConcurrentInit /\ [][ConcurrentNext]_vars

(***************************************************************************)
(* stlib.universe on its own: generate_steam_code at two server times and  *)
(* encrypt_password with what tests/universe/test_universe.py does to its  *)
(* result.  The arguments are drawn at the start; every action applies one *)
(* function to them.                                                       *)
(***************************************************************************)
GuardTimes == {0, 1, 29, 30, 59, 60}
GuardSecrets == SharedSecrets \cup {"AQIDBA=="}
CredentialPasswords == {"0000", "hunter2"}

\* rsa.newkeys: public and private key of a pair have n and e in common
NewKeys ==
    { [pub |-> [n |-> 3233, e |-> 17], priv |-> [n |-> 3233, e |-> 17, d |-> 2753]],
      [pub |-> [n |-> 253, e |-> 3], priv |-> [n |-> 253, e |-> 3, d |-> 147]] }

DecryptionError == [class |-> "rsa.pkcs1.DecryptionError"]
BinasciiError == [class |-> "binascii.Error"]

\* the ciphertexts of the model
Ciphertexts ==
    {rsa_encrypt(encode(secret), pair.pub, padding) :
        secret \in CredentialPasswords, pair \in NewKeys, padding \in Paddings}

\* base64.b64decode of the text of a ciphertext
is_base64(text) == \E crypto \in Ciphertexts : b64encode(crypto) = text
b64decode_encrypted(text) ==
    CHOOSE crypto \in Ciphertexts : b64encode(crypto) = text

\* rsa.decrypt: the message, under the private key of the pair the
\* ciphertext was made for
opens(crypto, priv_key) == crypto.n = priv_key.n /\ crypto.e = priv_key.e
rsa_decrypt(crypto, priv_key) == crypto.block.message

\* bytes.decode() on the messages of the model
decode(bytes) ==
    CHOOSE text \in CredentialPasswords : encode(text) = bytes

Returned(value) == [value |-> value]

UniverseInit ==
    /\ TransportIdle
    /\ RegistryEmpty
    /\ SignerIdle
    /\ OneSession
    /\ PagingIdle
    /\ LoginIdle
    /\ inputs \in [server_time : GuardTimes, later_time : GuardTimes,
                   shared_secret : GuardSecrets, keys : NewKeys,
                   password : CredentialPasswords]
    /\ returned = EmptyDict

\* steam_code = universe.generate_steam_code(server_time, shared_secret),
\* at either time
steam_code ==
    /\ \E at \in {"server_time", "later_time"} :
          /\ at \notin DOMAIN returned
          /\ returned' = set_item(returned, at,
                                  generate_steam_code(inputs[at], inputs.shared_secret))
    /\ UNCHANGED <<inputs, outside_functions>>

\* password_encrypted = universe.encrypt_password(SteamKey(public_key, 0), password)
password_encrypted ==
    /\ "password_encrypted" \notin DOMAIN returned
    /\ \E padding \in Paddings :
          returned' = set_item(returned, "password_encrypted",
                               encrypt_password([key |-> inputs.keys.pub, timestamp |-> 0],
                                                inputs.password, padding))
    /\ UNCHANGED <<inputs, outside_functions>>

\* rsa.decrypt(base64.b64decode(password_encrypted), private_key).decode(),
\* with the private key of any pair
password_decrypted ==
    /\ "password_encrypted" \in DOMAIN returned
    /\ "password" \notin DOMAIN returned
    /\ \E pair \in NewKeys :
          LET text == returned.password_encrypted
              raw == b64decode_encrypted(text)
          IN  returned' =
                 set_item(set_item(returned, "private_key", pair.priv),
                          "password",
                          IF ~is_base64(text) THEN BinasciiError
                          ELSE IF ~opens(raw, pair.priv) THEN DecryptionError
                          ELSE Returned(decode(rsa_decrypt(raw, pair.priv))))
    /\ UNCHANGED <<inputs, outside_functions>>

UniverseNext ==
    \/ steam_code
    \/ password_encrypted
    \/ password_decrypted

UniverseSpec == UniverseInit /\ [][UniverseNext]_vars

(***************************************************************************)
(* Community.get_inventory and Community.get_my_orders: the paging loops.  *)
(* The server holds an inventory of a number of pages, or a number of      *)
(* orders, and answers every page request from it; an action is the run of *)
(* the coroutine from one await to the next.                               *)
(***************************************************************************)
\* pages of the largest inventory
MaxPages == 3
\* page requests of get_my_orders followed
MaxOrderPages == 4

AppIds == {440, 730}
Counts == {100, 5000}
OrderTotals == {0, 100, 150, 250}

InventoryEmptyError(sid, appid, contextid, message) ==
    [class |-> "InventoryEmptyError", steamid |-> sid, appid |-> appid,
     contextid |-> contextid, args |-> <<message>>]

\* the server's answer to an inventory request: the page after
\* start_assetid; every page but the last names its last asset
InventoryPage(pages, params) ==
    LET k == IF "start_assetid" \in DOMAIN params THEN params.start_assetid + 1 ELSE 1
        page == [success |-> TRUE, total_inventory_count |-> pages,
                 assets |-> <<k>>, descriptions |-> <<k>>]
    IN  IF pages = 0 THEN [success |-> TRUE, total_inventory_count |-> 0]
        ELSE IF k < pages THEN set_item(set_item(page, "more_items", 1), "last_assetid", k)
        ELSE page

\* the server's answer to a mylistings request: the orders from start on
MyListingsPage(total, params) ==
    LET left == IF total > params.start THEN total - params.start ELSE 0
    IN  [success |-> TRUE, total_count |-> total,
         listings |-> [start |-> params.start,
                       length |-> IF left < params.count THEN left ELSE params.count],
         buy_orders |-> <<>>]

get_inventory ==
    /\ paging_pc \in {"idle", "returned", "raised"}
    /\ \E sid \in SteamIds, appid \in AppIds, count \in Counts, pages \in 0..MaxPages :
          /\ served' = [op |-> "get_inventory", steamid |-> sid, appid |-> appid,
                        contextid |-> 2, pages |-> pages]
          /\ page_params' = [l |-> "english", count |-> count]
    /\ page_data' = EmptyDict
    /\ paging_pc' = "inventory"
    /\ paging_outcome' = None
    /\ UNCHANGED outside_paging

get_my_orders ==
    /\ paging_pc \in {"idle", "returned", "raised"}
    /\ \E total \in OrderTotals :
          served' = [op |-> "get_my_orders", total |-> total]
    /\ page_params' = [start |-> 0, count |-> 100, norender |-> 1, l |-> "english"]
    /\ page_data' = EmptyDict
    /\ paging_pc' = "mylistings"
    /\ paging_outcome' = None
    /\ UNCHANGED outside_paging

\* a page request raises (transport failure, session expired)
PageRequestRaises ==
    /\ paging_pc \in {"inventory", "mylistings"}
    /\ paging_pc' = "raised"
    /\ paging_outcome' = ClientConnectorError
    /\ UNCHANGED <<page_params, page_data, served, outside_paging>>

\* if 'last_assetid' not in json_data: break
inventory_read(data) == "last_assetid" \notin DOMAIN data

\* the body of get_inventory's loop after the await, and the code after
\* the loop as far as the descriptions it reads
InventoryResponse ==
    /\ paging_pc = "inventory"
    /\ \E page \in {[success |-> FALSE], InventoryPage(served.pages, page_params)} :
          LET data == merged(page_data, page)
          IN  /\ page_data' = data
              /\ IF ~data.success
                 THEN /\ paging_pc' = "raised"
                      /\ paging_outcome' =
                            AttributeError("Unable to get inventory details")
                      /\ UNCHANGED page_params
                 ELSE IF data.total_inventory_count = 0
                 THEN /\ paging_pc' = "raised"
                      /\ paging_outcome' =
                            InventoryEmptyError(served.steamid, served.appid,
                                                served.contextid, "Inventory is empty")
                      /\ UNCHANGED page_params
                 ELSE IF inventory_read(data)
                 THEN /\ paging_pc' = "returned"
                      /\ paging_outcome' = Returned(data.descriptions)
                      /\ UNCHANGED page_params
                 ELSE /\ page_params' =
                            set_item(page_params, "start_assetid", data.last_assetid)
                      /\ paging_pc' = "inventory_sleep"
                      /\ UNCHANGED paging_outcome
    /\ UNCHANGED <<served, outside_paging>>

\* if json_data['total_count'] <= 100: break
orders_read(data) == data.total_count <= 100

\* the body of get_my_orders' loop after the await, and the code after the
\* loop as far as the lists it reads
MyListingsResponse ==
    /\ paging_pc = "mylistings"
    /\ \E page \in {[success |-> FALSE], MyListingsPage(served.total, page_params)} :
          LET data == merged(page_data, page)
          IN  /\ page_data' = data
              /\ IF ~data.success
                 THEN /\ paging_pc' = "raised"
                      /\ paging_outcome' = AttributeError("Unable to get order details")
                      /\ UNCHANGED page_params
                 ELSE IF orders_read(data)
                 THEN /\ paging_pc' = "returned"
                      /\ paging_outcome' =
                            Returned(<<data.listings, data.buy_orders>>)
                      /\ UNCHANGED page_params
                 ELSE /\ page_params.start \div 100 + 1 < MaxOrderPages
                      /\ page_params' = [page_params EXCEPT !.start = @ + 100]
                      /\ paging_pc' = "orders_sleep"
                      /\ UNCHANGED paging_outcome
    /\ UNCHANGED <<served, outside_paging>>

\* asyncio.sleep returned: the loop goes round and the next page is asked
PagingSleepEnds ==
    /\ paging_pc \in {"inventory_sleep", "orders_sleep"}
    /\ paging_pc' = IF paging_pc = "inventory_sleep" THEN "inventory" ELSE "mylistings"
    /\ UNCHANGED <<page_params, page_data, served, paging_outcome, outside_paging>>

PagingNext ==
    \/ get_inventory
    \/ get_my_orders
    \/ PageRequestRaises
    \/ InventoryResponse
    \/ MyListingsResponse
    \/ PagingSleepEnds

PagingSpec == Init /\ [][PagingNext]_vars

\* the server answers every page request and every sleep ends
PagingFairSpec ==
    /\ PagingSpec
    /\ WF_vars(InventoryResponse)
    /\ WF_vars(MyListingsResponse)
    /\ WF_vars(PagingSleepEnds)

(***************************************************************************)
(* Properties of do_login.  `sent` is the whole history of the running (or *)
(* last) call, so an order of requests is a property of that sequence.     *)
(***************************************************************************)
Endpoints ==
    {GetPasswordRSAPublicKey, BeginAuthSessionViaCredentials, GetServerInfo,
     UpdateAuthSessionWithSteamGuardCode, PollAuthSessionStatus, finalizelogin}

\* positions of the requests to url / to the transfer urls in sent
Requests(url) == {i \in DOMAIN sent : sent[i].url = url}
Transfers == {i \in DOMAIN sent : sent[i].url \notin Endpoints}

SecretSupplied == original_fargs.shared_secret # ""
CodeSupplied == original_fargs.auth_code # <<>>

\* the endpoints that may follow a request to url
MayFollow(url) ==
    CASE url = GetPasswordRSAPublicKey -> {BeginAuthSessionViaCredentials}
      [] url = BeginAuthSessionViaCredentials ->
            {GetServerInfo, UpdateAuthSessionWithSteamGuardCode, PollAuthSessionStatus}
      [] url = GetServerInfo -> {UpdateAuthSessionWithSteamGuardCode}
      [] url = UpdateAuthSessionWithSteamGuardCode -> {PollAuthSessionStatus}
      [] url = PollAuthSessionStatus -> {finalizelogin}
      [] OTHER -> {}

\* C1: the requests of one do_login call follow the protocol order key,
\* begin, (server time, submit code), poll, finalize, transfers; each
\* endpoint is requested at most once and the j-th transfer goes to the j-th
\* descriptor finalize answered; server time is fetched only with a shared
\* secret and a code submitted only when one is in hand; and a request is
\* issued only when the answer to the one before it was accepted.
C1_ProtocolOrder ==
    /\ sent # <<>> => sent[1].url = GetPasswordRSAPublicKey
    /\ \A i \in DOMAIN sent : i < Len(sent) =>
          IF sent[i].url \in Endpoints \ {finalizelogin}
          THEN sent[i + 1].url \in MayFollow(sent[i].url)
          ELSE i + 1 \in Transfers
    /\ \A url \in Endpoints : Cardinality(Requests(url)) <= 1
    /\ Transfers # {} =>
          /\ "transfer_info" \in DOMAIN json_data
          /\ Cardinality(Transfers) <= Len(json_data.transfer_info)
          /\ \A i \in Transfers :
                LET j == i - Len(sent) + Cardinality(Transfers)
                IN  /\ sent[i].url = json_data.transfer_info[j].url
                    /\ j <= Len(transfer_info) + 1
    /\ Requests(GetServerInfo) # {} => SecretSupplied
    /\ Requests(UpdateAuthSessionWithSteamGuardCode) # {} =>
          /\ SecretSupplied \/ CodeSupplied
          /\ SecretSupplied => Requests(GetServerInfo) # {} /\ server_time # 0
    /\ Requests(BeginAuthSessionViaCredentials) # {} => steam_key # NoKey
    /\ Len(sent) > 2 => client_id # ""
    /\ Requests(PollAuthSessionStatus) # {}
          /\ Requests(UpdateAuthSessionWithSteamGuardCode) # {}
          => "response" \in DOMAIN auth_data /\ DOMAIN auth_data.response # {}
    /\ Requests(finalizelogin) # {} => refresh_token # ""
    /\ pc \in Endpoints => sent # <<>> /\ sent[Len(sent)].url = pc
    /\ pc = "transfer" => Transfers # {}

\* a call that went through every step, with two transfers
C1_Witness ==
    /\ pc = "returned"
    /\ Len(sent) = 8
    /\ Cardinality(Transfers) = 2
    /\ sent[7].url # sent[8].url

InvalidCredentials ==
    LoginError("Unable to log-in. Check your username and password.", FALSE)

\* C2: when the begin answer carries no steamid, do_login ends at once with
\* the invalid-credentials LoginError and issues no request after the begin
\* request, whatever secret or code the caller gave; requests appear again
\* only with a new call.
C2_InvalidCredentials ==
    [][ /\ ( /\ pc = BeginAuthSessionViaCredentials
             /\ "response" \in DOMAIN json_data'
             /\ "steamid" \notin DOMAIN json_data'.response )
           => /\ pc' = "raised"
              /\ raised' = InvalidCredentials
              /\ sent' = sent
        /\ (pc = "raised" /\ raised = InvalidCredentials)
           => sent' = sent \/ Len(sent') <= 1 ]_vars

\* a rejected login of a caller who gave both a secret and a code
C2_Witness ==
    /\ pc = "raised"
    /\ raised = InvalidCredentials
    /\ SecretSupplied
    /\ CodeSupplied
    /\ Len(sent) = 2
    /\ "response" \in DOMAIN json_data
    /\ "steamid" \notin DOMAIN json_data.response

\* the fields of a request's form data that hold text
TextFields(data) ==
    DOMAIN data \cap {"account_name", "encrypted_password", "device_friendly_name",
                      "platform_type", "website_id", "client_id", "steamid",
                      "request_id", "nonce", "auth", "steamID"}

\* C3: no request of a call carries the password as it is, in its url, its
\* parameters or its form data; the begin request carries it RSA-encrypted
\* under the key fetched in this call, with that key's timestamp.
C3_PasswordNeverPlain ==
    \A i \in DOMAIN sent :
       /\ \A secret \in Passwords :
             /\ sent[i].url # secret
             /\ \A k \in DOMAIN sent[i].params : sent[i].params[k] # secret
             /\ \A k \in TextFields(sent[i].data) : sent[i].data[k] # secret
       /\ sent[i].url = BeginAuthSessionViaCredentials =>
             /\ steam_key # NoKey
             /\ sent[i].data.encryption_timestamp = steam_key.timestamp
             /\ \E secret \in Passwords, padding \in Paddings :
                   sent[i].data.encrypted_password =
                      b64encode(rsa_encrypt(encode(secret), steam_key.key, padding))
             /\ ~NoCallRunning => \E padding \in Paddings :
                   sent[i].data.encrypted_password =
                      b64encode(rsa_encrypt(encode(password), steam_key.key, padding))

\* a whole negotiation, every kind of request sent
C3_Witness ==
    /\ pc = "returned"
    /\ Requests(UpdateAuthSessionWithSteamGuardCode) # {}
    /\ Transfers # {}
    /\ password \in Passwords

\* C4: with a shared secret the code submitted is generate_steam_code of the
\* server time fetched in this call and that secret, also when the caller
\* gave a code of their own; without a secret the caller's code is
\* submitted as given.
C4_CodePrecedence ==
    \A i \in Requests(UpdateAuthSessionWithSteamGuardCode) :
       IF SecretSupplied
       THEN /\ server_time \in ServerTimes
            /\ \E j \in Requests(GetServerInfo) : j < i
            /\ sent[i].data.code =
                  generate_steam_code(server_time, original_fargs.shared_secret)
       ELSE sent[i].data.code = original_fargs.auth_code

\* a code derived and submitted although the caller gave another one
C4_Witness ==
    /\ SecretSupplied
    /\ CodeSupplied
    /\ \E i \in Requests(UpdateAuthSessionWithSteamGuardCode) :
          sent[i].data.code # original_fargs.auth_code
    /\ \A t \in ServerTimes \ {server_time} :
          generate_steam_code(t, original_fargs.shared_secret) # auth_code
    /\ \A secret \in SharedSecrets \ {original_fargs.shared_secret} :
          generate_steam_code(server_time, secret) # auth_code

\* C5: a call given neither a shared secret nor a code never requests
\* UpdateAuthSessionWithSteamGuardCode.
C5_NoCodeNoSubmit ==
    (~SecretSupplied /\ ~CodeSupplied)
       => Requests(UpdateAuthSessionWithSteamGuardCode) = {}

\* scenario C: the device code is the one type allowed and is asked for
C5_Witness ==
    /\ ~SecretSupplied
    /\ ~CodeSupplied
    /\ pc = "raised"
    /\ raised.class = "TwoFactorCodeError"
    /\ "response" \in DOMAIN json_data
    /\ Len(json_data.response.allowed_confirmations) = 1

\* json_data holds an accepted begin answer (no poll answer replaced it)
BeginAnswered ==
    /\ "response" \in DOMAIN json_data
    /\ "allowed_confirmations" \in DOMAIN json_data.response

AllowedAtBegin == json_data.response.allowed_confirmations
FirstAllowed == AllowedAtBegin[1].confirmation_type

RequirementClasses == {"MailCodeError", "TwoFactorCodeError", "CaptchaError"}

\* C6, as claimed: a call given neither secret nor code, once begin
\* succeeded, ends with a typed confirmation requirement, with no request
\* after the begin request and no LoginData, whatever type comes first.
C6_AlwaysRequirement ==
    (~SecretSupplied /\ ~CodeSupplied /\ client_id # "")
       => /\ pc = "raised"
          /\ raised.class \in RequirementClasses
          /\ Len(sent) = 2
          /\ result = NoResult

\* C6, amended: the same when the first allowed type is the email code (2),
\* the device code (3) or the machine token (6).
C6_RequirementForKnownTypes ==
    (~SecretSupplied /\ ~CodeSupplied /\ BeginAnswered /\ FirstAllowed \in {2, 3, 6})
       => /\ pc = "raised"
          /\ raised.class \in RequirementClasses
          /\ Len(sent) = 2
          /\ sent[2].url = BeginAuthSessionViaCredentials
          /\ result = NoResult

\* the machine token comes first and the captcha is asked for
C6_Witness ==
    /\ ~SecretSupplied
    /\ ~CodeSupplied
    /\ BeginAnswered
    /\ FirstAllowed = 6
    /\ pc = "raised"
    /\ raised.class = "CaptchaError"

RequirementClass(confirmation_type) ==
    CASE confirmation_type = 2 -> "MailCodeError"
      [] confirmation_type = 3 -> "TwoFactorCodeError"
      [] confirmation_type = 6 -> "CaptchaError"
      [] OTHER -> "none"

\* C7: with neither secret nor code, the class of the requirement raised is
\* decided by the first allowed type alone (2: MailCodeError, 3:
\* TwoFactorCodeError, 6: CaptchaError, any other: no requirement), whatever
\* follows it in the list.
C7_FirstEntryAuthoritative ==
    (~SecretSupplied /\ ~CodeSupplied /\ BeginAnswered)
       => IF FirstAllowed \in {2, 3, 6}
          THEN raised.class = RequirementClass(FirstAllowed)
          ELSE raised.class \notin RequirementClasses

\* the mail code asked for although another type follows in the list
C7_Witness ==
    /\ ~SecretSupplied
    /\ ~CodeSupplied
    /\ BeginAnswered
    /\ Len(AllowedAtBegin) = 2
    /\ AllowedAtBegin[2].confirmation_type \in {3, 6}
    /\ raised.class = "MailCodeError"

\* C8, as claimed: the requirement carries captcha_requested = TRUE exactly
\* when more than one confirmation type is allowed.
C8_CaptchaIffSeveral ==
    (~SecretSupplied /\ ~CodeSupplied /\ BeginAnswered
        /\ raised.class \in RequirementClasses)
       => raised.captcha_requested = (Len(AllowedAtBegin) > 1)

\* C8, amended: exactly when more than one type is allowed or the first one
\* is the machine token (6), whose CaptchaError always carries TRUE.
C8_CaptchaIffSeveralOrMachine ==
    (~SecretSupplied /\ ~CodeSupplied /\ BeginAnswered
        /\ raised.class \in RequirementClasses)
       => raised.captcha_requested = (Len(AllowedAtBegin) > 1 \/ FirstAllowed = 6)

\* scenario D: two types allowed, the device code first
C8_Witness ==
    /\ ~SecretSupplied
    /\ ~CodeSupplied
    /\ BeginAnswered
    /\ Len(AllowedAtBegin) = 2
    /\ raised.class = "TwoFactorCodeError"
    /\ raised.captcha_requested

WrongGuardCode == LoginError("SteamGuard code is wrong", FALSE)

TokensNotIssued == LoginError("Tokens are not received. Try again.", FALSE)

\* json_data holds the poll answer
PollAnswered ==
    /\ Requests(PollAuthSessionStatus) # {}
    /\ "response" \in DOMAIN json_data
    /\ "steamid" \notin DOMAIN json_data.response

\* C10: a call polls once: at most one poll request, exactly one once
\* polling is reached; when the poll answer has no refresh token the call
\* ends with the tokens-not-issued LoginError, the poll request being its
\* last one (no second poll, no finalize, no transfer).
C10_OnePoll ==
    /\ Cardinality(Requests(PollAuthSessionStatus)) <= 1
    /\ pc \in {PollAuthSessionStatus, finalizelogin, "transfer", "returned"}
          => Cardinality(Requests(PollAuthSessionStatus)) = 1
    /\ (PollAnswered /\ "refresh_token" \notin DOMAIN json_data.response)
          => /\ pc = "raised"
             /\ raised = TokensNotIssued
             /\ sent[Len(sent)].url = PollAuthSessionStatus
             /\ Requests(finalizelogin) = {}
             /\ Transfers = {}

\* the server answered the poll without tokens (confirmation still pending)
C10_Witness ==
    /\ pc = "raised"
    /\ raised = TokensNotIssued
    /\ PollAnswered
    /\ DOMAIN json_data.response = {"had_remote_interaction"}

CookieNotSet == LoginError("Error setting login cookies", FALSE)

\* json_data holds the finalize answer
FinalizeAnswered == "transfer_info" \in DOMAIN json_data
Descriptors == json_data.transfer_info

\* the call ended because a transfer response came without steamLoginSecure
CookieRejected ==
    /\ pc = "raised"
    /\ raised = CookieNotSet
    /\ FinalizeAnswered

\* the descriptor whose response lacked the cookie (transfer_info holds the
\* ones before it)
FailedDescriptor == Descriptors[Len(transfer_info) + 1]

\* C11: when the response for one descriptor does not set the cookie, the
\* remaining descriptors are still submitted: every descriptor finalize
\* answered with has received its transfer request when the call has ended.
C11_EveryDescriptorSubmitted ==
    CookieRejected =>
       /\ Cardinality(Transfers) = Len(Descriptors)
       /\ \A j \in DOMAIN Descriptors :
             \E i \in Transfers : sent[i].url = Descriptors[j].url

\* the text an exception carries, by field
TextArgs(exception) == DOMAIN exception \cap {"message", "url"}

\* C12: when one transfer domain rejects its cookie, the failure do_login
\* ends with names that domain: the error value carries the url of the
\* descriptor whose response lacked the cookie.
C12_FailureNamesDomain ==
    CookieRejected =>
       \E k \in TextArgs(raised) : raised[k] = FailedDescriptor.url

\* the answer to the submitted code was not empty
CodeAccepted ==
    /\ Requests(UpdateAuthSessionWithSteamGuardCode) # {}
    /\ "response" \in DOMAIN auth_data
    /\ DOMAIN auth_data.response # {}

\* the TransferInfo entries a list of descriptors stands for
Transferred(items) ==
    [j \in DOMAIN items |->
        TransferInfo(items[j].url, items[j].params.nonce, items[j].params.auth)]

\* what a returned LoginData rests on: begin answered with the session,
\* poll with the tokens, finalize with the descriptors, each descriptor sent
\* its request and answered with the steamLoginSecure cookie; and the
\* LoginData holds these values, one TransferInfo per descriptor, in order
LoginDataGrounds ==
    /\ \E s \in AuthSessions :
          /\ client_id = s.client_id
          /\ request_id = s.request_id
          /\ steamid = s.steamid
    /\ \E t \in Tokens :
          /\ refresh_token = t.refresh_token
          /\ access_token = t.access_token
    /\ Requests(PollAuthSessionStatus) # {}
    /\ Requests(finalizelogin) # {}
    /\ FinalizeAnswered
    /\ Cardinality(Transfers) = Len(Descriptors)
    /\ Len(transfer_info) = Len(Descriptors)
    /\ Descriptors # <<>> => "steamLoginSecure" \in transfer_response.cookies
    /\ result = LoginData(steamid, client_id, sessionid, refresh_token,
                          access_token, Transferred(Descriptors))

\* every descriptor passed so far was answered with the cookie
EachTransferSetCookie ==
    (pc \in {"transfer", "returned"} /\ transfer_info # <<>>)
       => /\ "steamLoginSecure" \in transfer_response.cookies
          /\ FinalizeAnswered
          /\ Len(transfer_info) <= Len(Descriptors)
          /\ \A j \in DOMAIN transfer_info : transfer_info[j] = Transferred(Descriptors)[j]

\* C13, as claimed: do_login returns a LoginData only if begin succeeded, a
\* code was accepted, poll returned a refresh token and every descriptor's
\* response set steamLoginSecure; transfer_info then has one entry per
\* descriptor, in order, with the same url, nonce and auth, and is not empty.
C13_LoginDataOnlyIfCode ==
    /\ EachTransferSetCookie
    /\ pc = "returned" =>
          /\ LoginDataGrounds
          /\ CodeAccepted
          /\ result.transfer_info # <<>>

\* C13, amended: the same, with the code accepted when one was submitted
\* (none is when the caller gave neither secret nor code), and transfer_info
\* not empty exactly when finalize answered with at least one descriptor.
C13_LoginDataOnlyIf ==
    /\ EachTransferSetCookie
    /\ pc = "returned" =>
          /\ LoginDataGrounds
          /\ IF SecretSupplied \/ CodeSupplied
             THEN CodeAccepted
             ELSE Requests(UpdateAuthSessionWithSteamGuardCode) = {}
          /\ (result.transfer_info # <<>>) <=> (Descriptors # <<>>)

\* scenario A: the code derived from the shared secret, two domains
C13_Witness ==
    /\ pc = "returned"
    /\ SecretSupplied
    /\ ~CodeSupplied
    /\ CodeAccepted
    /\ Len(result.transfer_info) = 2
    /\ result.transfer_info[1].url # result.transfer_info[2].url

LowerHex ==
    {"0", "1", "2", "3", "4", "5", "6", "7", "8", "9", "a", "b", "c", "d", "e", "f"}

\* positions of the requests whose form data has a sessionid
CarrySessionId == {i \in DOMAIN sent : "sessionid" \in DOMAIN sent[i].data}

\* C14: a call generates its sessionid once, when the poll answer issued the
\* tokens (none before, and one from then on); it is 24 characters of
\* 0-9a-f; the one request carrying a sessionid is the finalize request and
\* carries this value; and LoginData.sessionid is the value sent to finalize.
C14_OneSessionId ==
    /\ (sessionid # <<>>) <=> (refresh_token # "")
    /\ (sessionid # <<>>) <=> (Requests(finalizelogin) # {})
    /\ sessionid # <<>> =>
          /\ Len(sessionid) = 24
          /\ \A k \in DOMAIN sessionid : sessionid[k] \in LowerHex
    /\ CarrySessionId = Requests(finalizelogin)
    /\ \A i \in CarrySessionId : sent[i].data.sessionid = sessionid
    /\ pc = "returned" =>
          /\ sessionid # <<>>
          /\ result.sessionid = sessionid
          /\ \E i \in Requests(finalizelogin) :
                sent[i].data.sessionid = result.sessionid

\* a LoginData returned after transfers, its sessionid not a single digit
\* repeated
C14_Witness ==
    /\ pc = "returned"
    /\ Transfers # {}
    /\ Len(result.sessionid) = 24
    /\ result.sessionid[1] # result.sessionid[2]
    /\ \E i \in Requests(finalizelogin) : sent[i].data.sessionid = result.sessionid

\* the values of the field `name` among those received in this call
ReceivedAs(name) == {r.value : r \in {x \in received : x.name = name}}

\* what the requests of the call carry was received in this call: the key
\* request is for the session's username, the begin request is for the same
\* account with the timestamp of a key received, the later requests carry a
\* client id, request id, steam id and refresh token received; and a call
\* receives at most one value of each
SentWasReceived ==
    /\ ~NoCallRunning =>
          /\ sent # <<>>
          /\ sent[1].url = GetPasswordRSAPublicKey
          /\ sent[1].method = "GET"
          /\ sent[1].params.account_name = username
    /\ \A i \in Requests(BeginAuthSessionViaCredentials) :
          /\ sent[1].url = GetPasswordRSAPublicKey
          /\ sent[i].data.account_name = sent[1].params.account_name
          /\ \E t \in ReceivedAs("timestamp") :
                sent[i].data.encryption_timestamp = int10(t)
    /\ \A i \in Requests(UpdateAuthSessionWithSteamGuardCode) :
          /\ sent[i].data.client_id \in ReceivedAs("client_id")
          /\ sent[i].data.steamid \in ReceivedAs("steamid")
    /\ \A i \in Requests(PollAuthSessionStatus) :
          /\ sent[i].data.client_id \in ReceivedAs("client_id")
          /\ sent[i].data.request_id \in ReceivedAs("request_id")
    /\ \A i \in Requests(finalizelogin) :
          sent[i].data.nonce \in ReceivedAs("refresh_token")
    /\ \A i \in Transfers : sent[i].data.steamID \in ReceivedAs("steamid")
    /\ \A r1, r2 \in received : r1.name = r2.name => r1 = r2
    /\ pc = GetPasswordRSAPublicKey => received = {}

\* a step that starts a call
CallStarts == pc # GetPasswordRSAPublicKey /\ pc' = GetPasswordRSAPublicKey

\* a call starts with nothing of the call before it: no key, no ids, no
\* tokens, nothing received, and its one request is the key request for the
\* username the session has now; what a call received only grows until the
\* next call starts
StartsFresh ==
    /\ CallStarts =>
          /\ received' = {}
          /\ steam_key' = NoKey
          /\ client_id' = "" /\ request_id' = "" /\ steamid' = ""
          /\ refresh_token' = "" /\ access_token' = ""
          /\ sent' = <<[method |-> "GET", url |-> GetPasswordRSAPublicKey,
                        params |-> [account_name |-> username'],
                        data |-> EmptyDict]>>
    /\ ~CallStarts => received \subseteq received'

KeyFetchFailed == ValueError("Failed to get public key.")

\* C16: get_steam_key issues one GET for the session's username, with no
\* form data; when the answer carries no key data the call ends with the
\* failed-key ValueError, the key request being its only request: no begin
\* request is submitted (one is only after key data was received).
C16_KeyFetchFails ==
    /\ Cardinality(Requests(GetPasswordRSAPublicKey)) <= 1
    /\ \A i \in Requests(GetPasswordRSAPublicKey) :
          /\ i = 1
          /\ sent[i].method = "GET"
          /\ DOMAIN sent[i].params = {"account_name"}
          /\ DOMAIN sent[i].data = {}
          /\ ~NoCallRunning => sent[i].params.account_name = username
    /\ (sent # <<>> /\ pc # GetPasswordRSAPublicKey /\ received = {}
           /\ raised \notin RequestErrors)
          => /\ pc = "raised"
             /\ raised = KeyFetchFailed
    /\ raised = KeyFetchFailed =>
          /\ pc = "raised"
          /\ Len(sent) = 1
          /\ received = {}
          /\ steam_key = NoKey
          /\ result = NoResult
    /\ Requests(BeginAuthSessionViaCredentials) # {} =>
          /\ ReceivedAs("timestamp") # {}
          /\ steam_key # NoKey

\* the key answer came empty to a session that has its password
C16_Witness ==
    /\ pc = "raised"
    /\ raised = KeyFetchFailed
    /\ password # ""
    /\ Len(sent) = 1
    /\ sent[1].params.account_name = username

(***************************************************************************)
(* Properties of Base.request.  http_log is the whole history of the       *)
(* running (or last) call.                                                 *)
(***************************************************************************)
\* positions of the attempts and of the sleeps in http_log
Attempts == {i \in DOMAIN http_log : http_log[i].event = "attempt"}
Sleeps == {i \in DOMAIN http_log : http_log[i].event = "sleep"}

OutcomeAt(i) == http_log[i].outcome
ConnectorFailureAt(i) == OutcomeAt(i).kind = "ClientConnectorError"
ClientErrorAt(i) ==
    /\ OutcomeAt(i).kind = "ClientResponseError"
    /\ OutcomeAt(i).status \in 400..499
ServerErrorAt(i) ==
    /\ OutcomeAt(i).kind = "ClientResponseError"
    /\ OutcomeAt(i).status \in 500..599

\* C17: a call of request makes at most 4 attempts, however each attempt
\* ends and whether or not auto_recovery is set: the attempt in progress is
\* one of the first four.
C17_AtMostFourAttempts ==
    /\ Cardinality(Attempts) <= 4
    /\ request_pc = "attempt" => Cardinality(Attempts) < 4

\* the fourth attempt answered, after a connector failure and 5xx answers
C17_Witness ==
    /\ request_pc = "returned"
    /\ auto_recovery
    /\ Cardinality(Attempts) = 4
    /\ ConnectorFailureAt(1)
    /\ \E i \in Attempts : ServerErrorAt(i)

AllServerErrors == Attempts # {} /\ \A i \in Attempts : ServerErrorAt(i)

AllConnectorFailures == Attempts # {} /\ \A i \in Attempts : ConnectorFailureAt(i)

\* C20: with auto_recovery, when every attempt fails at the connector, the
\* call sleeps 5 seconds and tries again until 4 attempts are made, and
\* then ends with the connector failure: it never returns a Response and
\* never ends with an error of another kind.
C20_ConnectorFailureSurfaced ==
    (auto_recovery /\ AllConnectorFailures) =>
       /\ \A i \in Sleeps : http_log[i].seconds = 5
       /\ request_pc # "returned"
       /\ request_pc = "raised" =>
             /\ Cardinality(Attempts) = 4
             /\ request_raised.class = "ClientConnectorError"

\* C21: with auto_recovery off, a call of request makes one attempt at
\* most: whatever failure the first attempt ends with (connector, 4xx or
\* 5xx) ends the call with that failure, and nothing is sent again.
C21_SingleAttemptWithoutRecovery ==
    ~auto_recovery =>
       /\ Cardinality(Attempts) <= 1
       /\ \A i \in Attempts :
             OutcomeAt(i).kind # "response" =>
                /\ request_pc = "raised"
                /\ request_raised.class = OutcomeAt(i).kind

TransientAt(i) == ConnectorFailureAt(i) \/ ServerErrorAt(i)
AnsweredAt(i) ==
    /\ OutcomeAt(i).kind = "response"
    /\ ~in_text("login/home/?goto=", location(OutcomeAt(i).response))

\* C22: with auto_recovery, when the attempts before attempt k all failed
\* transiently (connector failure or 5xx) and attempt k is answered, the
\* call returns the Response of attempt k: status, cookies and content are
\* those of that answer, attempt k is the last entry of the log, and no
\* error is raised.  While every attempt so far failed transiently and
\* fewer than 4 were made, the call has not ended.
C22_SuccessAfterTransientFailures ==
    auto_recovery =>
       /\ \A k \in Attempts :
             ((\A i \in Attempts : i < k => TransientAt(i)) /\ AnsweredAt(k)) =>
                /\ k = Len(http_log)
                /\ request_pc = "returned"
                /\ request_result.status = OutcomeAt(k).response.status
                /\ request_result.cookies = OutcomeAt(k).response.cookies
                /\ request_result.content = OutcomeAt(k).response.content
                /\ request_raised = NoError
       /\ ((\A i \in Attempts : TransientAt(i)) /\ Cardinality(Attempts) < Tries) =>
             request_pc \in {"idle", "attempt", "sleep"}

\* a connector failure, then a 503, then an answer with status 302
C22_Witness ==
    /\ auto_recovery
    /\ request_pc = "returned"
    /\ Cardinality(Attempts) = 3
    /\ Len(http_log) = 5
    /\ ConnectorFailureAt(1)
    /\ ServerErrorAt(3)
    /\ AnsweredAt(5)
    /\ request_result.status = 302

\* some redirect of the chain, or the Location header, is the login page
PointsToLogin(response) ==
    \/ \E k \in DOMAIN response.history :
          in_text("login/home/?goto=", response.history[k])
    \/ in_text("login/home/?goto=", response.Location)

\* C23: an answer whose redirect chain or Location header points to the
\* login page ends the call with the session-expired LoginError, whatever
\* its status: at that attempt, with no sleep and no attempt after it.
C23_LoginPageExpires ==
    \A i \in Attempts :
       (OutcomeAt(i).kind = "response" /\ PointsToLogin(OutcomeAt(i).response)) =>
          /\ i = Len(http_log)
          /\ request_pc = "raised"
          /\ request_raised = SessionExpired

\* C37: a code derived from the shared secret is submitted as a device
\* code: whenever the call was given a shared secret (the code submitted is
\* then generate_steam_code of it, whatever auth_code was), the code_type of
\* the UpdateAuthSessionWithSteamGuardCode request is AuthCodeType.device,
\* whatever auth_code_type was.
C37_DerivedCodeIsDeviceCode ==
    \A i \in Requests(UpdateAuthSessionWithSteamGuardCode) :
       (/\ SecretSupplied
        /\ sent[i].data.code =
              generate_steam_code(server_time, original_fargs.shared_secret))
          => sent[i].data.code_type = AuthCodeType_value("device")

(***************************************************************************)
(* Properties of the registry of sessions.                                 *)
(***************************************************************************)
Slots == Classes \X Indexes
RegisteredAt(cls, i) ==
    /\ cls \in DOMAIN session_cache
    /\ i \in DOMAIN session_cache[cls]

\* a step of new_session(i) of class cls, and of destroy_session(i) before
\* its await
NewSessionStep(cls, i) ==
    /\ call'.op = "new_session"
    /\ call'.class = cls
    /\ call'.session_index = i
    /\ <<session_cache, call, http_sessions, latest>>' #
          <<session_cache, call, http_sessions, latest>>
DestroySessionStep(cls, i) ==
    /\ call'.op = "destroy_session"
    /\ call'.class = cls
    /\ call'.session_index = i
    /\ ~call'.resumed
    /\ registry' # registry

\* C25: new_session(i) of a class that has an instance registered at i
\* raises IndexError, and the instance registered at i is the same after
\* the call: get_session(i) returns the instance the earlier new_session
\* created.
KeepsRegistered ==
    \A slot \in Slots :
       (RegisteredAt(slot[1], slot[2]) /\ NewSessionStep(slot[1], slot[2])) =>
          /\ call'.outcome = IndexError
          /\ cached_session(session_cache', slot[1], slot[2])
                = cached_session(session_cache, slot[1], slot[2])
          /\ cached_session(session_cache', slot[1], slot[2])
                = latest[slot[1]][slot[2]]
C25_SecondNewSessionRaises == [][KeepsRegistered]_vars

\* a second new_session at an index raised, and the first instance is
\* still the one registered there
C25_Witness ==
    \E slot \in Slots :
       /\ call = Call("new_session", slot[1], slot[2], FALSE, IndexError)
       /\ RegisteredAt(slot[1], slot[2])
       /\ cached_session(session_cache, slot[1], slot[2]).generation = 1

\* C26: whatever calls were made and wherever a destroy_session is
\* suspended, get_session(i) of a class returns the instance its latest
\* successful new_session(i) created when destroy_session did not remove
\* that instance, and raises IndexError when it did or when none was
\* created; the instances registered at different indexes are different
\* objects.
C26_GetSessionReturnsLatest ==
    /\ \A slot \in Slots :
          LET created == latest[slot[1]][slot[2]]
          IN  cached_session(session_cache, slot[1], slot[2]) =
                 IF created # NoInstance /\ created \notin destroyed
                 THEN created
                 ELSE IndexError
    /\ \A cls \in Classes : \A i, j \in Indexes :
          (i # j /\ RegisteredAt(cls, i) /\ RegisteredAt(cls, j)) =>
             session_cache[cls][i] # session_cache[cls][j]

\* get_session returned the second instance created at index 0, after the
\* first was destroyed, and the class has no instance at index 1
C26_Witness ==
    \E cls \in Classes :
       /\ RegisteredAt(cls, 0)
       /\ session_cache[cls][0].generation = 2
       /\ destroyed # {}
       /\ cached_session(session_cache, cls, 1) = IndexError
       /\ call = Call("get_session", cls, 0, FALSE, session_cache[cls][0])

\* C27: every instance registered at an index uses the http session
\* registered at that index, and that http session is not closed.
C27_InstanceUsesCachedHttpSession ==
    \A slot \in Slots :
       RegisteredAt(slot[1], slot[2]) =>
          /\ slot[2] \in DOMAIN session_cache["http_session"]
          /\ session_cache[slot[1]][slot[2]].http_session
                = session_cache["http_session"][slot[2]]
          /\ session_cache[slot[1]][slot[2]].http_session \notin closed

\* C28: destroy_session(i) of a class with no instance registered at i
\* raises IndexError, or with no_fail true returns None, and leaves the
\* instances, the http sessions and their being open as they were.
MissingLeftAlone ==
    \A slot \in Slots :
       (~RegisteredAt(slot[1], slot[2]) /\ DestroySessionStep(slot[1], slot[2])) =>
          /\ call'.outcome = IF call'.no_fail THEN None ELSE IndexError
          /\ session_cache' = session_cache
          /\ closed' = closed
          /\ destroying' = destroying
C28_DestroyMissing == [][MissingLeftAlone]_vars

\* destroy_session with no_fail, of a class without instance at the index,
\* returned, while another class has an instance there
C28_Witness ==
    \E slot \in Slots :
       /\ call.op = "destroy_session"
       /\ call.class = slot[1]
       /\ call.session_index = slot[2]
       /\ call.no_fail
       /\ ~call.resumed
       /\ call.outcome = None
       /\ ~RegisteredAt(slot[1], slot[2])
       /\ \E cls \in Classes : RegisteredAt(cls, slot[2])

\* C35: destroy_session(i) of a class that has an instance registered at i
\* completes without raising: no call of destroy_session ends in an
\* exception after it removed the instance (KeyError is raised only past
\* `del _session_cache[cache_name][session_index]`).
C35_DestroyRegisteredCompletes ==
    call.op = "destroy_session" => call.outcome # KeyError

\* C36: a new_session that raises IndexError leaves the registry as it was:
\* the same instances and the same http sessions at the same indexes, and
\* no http session created.
FailedNewSessionChangesNothing ==
    \A slot \in Slots :
       (NewSessionStep(slot[1], slot[2]) /\ call'.outcome = IndexError) =>
          /\ session_cache' = session_cache
          /\ http_sessions' = http_sessions
C36_FailedNewSessionChangesNothing == [][FailedNewSessionChangesNothing]_vars

(***************************************************************************)
(* Properties of the signed confirmation requests.  mobileconf_log is the  *)
(* whole history of the running (or last) call.                            *)
(***************************************************************************)
\* positions in mobileconf_log of the confirmation requests sent
MobileconfRequests ==
    {i \in DOMAIN mobileconf_log :
        /\ mobileconf_log[i].event = "sent"
        /\ mobileconf_log[i].url \notin {GetServerInfo, "get_item_name"}}

SelfConsistent(query) ==
    /\ query.k = generate_time_hash(query.t, query.tag, mobileconf_args.identity_secret)
    /\ query.p = mobileconf_args.deviceid
    /\ query.a = mobileconf_args.steamid.id64
    /\ query.m = "android"

\* C29: every query _new_mobileconf_query builds is self-consistent: its k
\* is the time hash of its own t and its own tag under the identity secret
\* of the call, p is the device id, a the 64-bit steam id and m 'android'.
\* So is the query of every confirmation request sent.
C29_QuerySelfConsistent ==
    /\ DOMAIN mobileconf_query # {} => SelfConsistent(mobileconf_query)
    /\ \A i \in MobileconfRequests : SelfConsistent(mobileconf_log[i].params)

\* the details of confirmation 8 asked at server time 60 under the second
\* identity secret, after a list asked at server time 59
C29_Witness ==
    /\ mobileconf_pc = "details"
    /\ mobileconf_args.identity_secret = "c2VjcmV0"
    /\ mobileconf_query.tag = "details8"
    /\ mobileconf_query.t = 60
    /\ mobileconf_log[3].params.t = 59
    /\ mobileconf_query.k # mobileconf_log[3].params.k

\* C30: every confirmation request (list, details of an item, approve or
\* cancel) is sent with a query built for it alone: the two entries before
\* it in the log are the GetServerInfo request of its query and that
\* request's answer, whose servertime is the query's t; every confirmation
\* request before it was answered before that GetServerInfo request was
\* sent.  In get_confirmations this holds for the details of every item.
C30_QueryPerRequest ==
    \A i \in MobileconfRequests :
       /\ i >= 3
       /\ mobileconf_log[i - 2] = Sent(GetServerInfo, EmptyDict)
       /\ mobileconf_log[i - 1] =
             Answered(GetServerInfo, [servertime |-> mobileconf_log[i].params.t])
       /\ \A j \in MobileconfRequests :
             j < i =>
                /\ j + 1 < i - 2
                /\ mobileconf_log[j + 1].event = "answered"
                /\ mobileconf_log[j + 1].url = mobileconf_log[j].url

\* get_confirmations returned two confirmations: three confirmation
\* requests, each after its own server time, the last at another time than
\* the first
C30_Witness ==
    /\ mobileconf_pc = "returned"
    /\ mobileconf_args.op = "get_confirmations"
    /\ Len(confirmations) = 2
    /\ Cardinality(MobileconfRequests) = 3
    /\ \E i, j \in MobileconfRequests :
          mobileconf_log[i].params.t # mobileconf_log[j].params.t

\* the sub-operation a confirmation request belongs to
SubOperation(url) ==
    IF url = getlist THEN "list"
    ELSE IF url = ajaxop THEN "approve/cancel"
    ELSE "details"

\* C31: the tag namespaces the sub-operation: the tags of the list, of the
\* details of an item and of an approval or refusal are pairwise different,
\* so every confirmation request is signed under a tag that no other
\* sub-operation uses.
C31_TagNamespacesSubOperation ==
    \A i \in MobileconfRequests :
       LET tag == mobileconf_log[i].params.tag
           op == SubOperation(mobileconf_log[i].url)
       IN  /\ op # "list" => tag # list_tag
           /\ op # "approve/cancel" => tag # send_tag
           /\ op # "details" => \A c \in ListedConfirmations : tag # details_tag(c.id)

(***************************************************************************)
(* Properties of the functions of stlib.universe.                          *)
(***************************************************************************)
\* the names under which the steam codes are returned
CodesReturned == {"server_time", "later_time"} \cap DOMAIN returned

\* 26 ^ k
RECURSIVE Pow26(_)
Pow26(k) == IF k = 0 THEN 1 ELSE 26 * Pow26(k - 1)

\* C32: generate_steam_code returns exactly 5 characters, each one of the
\* 26 symbols '23456789BCDFGHJKMNPQRTVWXY': character i is the symbol at
\* (value \div 26^(i-1)) % 26 of the 31-bit value generate_otp_code gives for
\* the 30-second counter of the server time and the decoded shared secret.
C32_SteamCodeShape ==
    \A at \in CodesReturned :
       LET code == returned[at]
           value == generate_otp_code(to_bytes(inputs[at] \div 30, 8),
                                      b64decode(inputs.shared_secret))
       IN  /\ Len(code) = 5
           /\ value \in 0..2147483647
           /\ \A i \in 1..Len(code) :
                 /\ code[i] \in {"2", "3", "4", "5", "6", "7", "8", "9", "B", "C",
                                 "D", "F", "G", "H", "J", "K", "M", "N", "P", "Q",
                                 "R", "T", "V", "W", "X", "Y"}
                 /\ code[i] = STEAM_ALPHABET[((value \div Pow26(i - 1)) % 26) + 1]

\* the code of the test: server time 0 under 'AAAAAAAA'
C32_Witness ==
    /\ "server_time" \in DOMAIN returned
    /\ inputs.server_time = 0
    /\ inputs.shared_secret = "AAAAAAAA"
    /\ Len(returned.server_time) = 5

\* C33: two server times in the same 30-second window give the same code
\* under the same shared secret.
C33_SameWindowSameCode ==
    CodesReturned = {"server_time", "later_time"} =>
       (inputs.server_time \div 30 = inputs.later_time \div 30
           => returned.server_time = returned.later_time)

\* the codes of seconds 30 and 59, which differ from the code of second 29
C33_Witness ==
    /\ CodesReturned = {"server_time", "later_time"}
    /\ inputs.server_time = 30
    /\ inputs.later_time = 59
    /\ returned.server_time = returned.later_time
    /\ returned.server_time # generate_steam_code(29, inputs.shared_secret)

C38_OrdersReadInFinitelyManyPages ==
    (/\ served.op = "get_my_orders"
     /\ paging_pc = "mylistings"
     /\ "total_count" \in DOMAIN page_data)
       => page_params.start < page_data.total_count

\* C39: get_inventory terminates for every inventory with a finite number
\* of pages: with the server answering every page request and every sleep
\* ending, a call that has a page request out returns or raises.
C39_InventoryTerminates ==
    (served.op = "get_inventory" /\ paging_pc = "inventory")
       ~> (paging_pc \in {"returned", "raised"})

(***************************************************************************)
(* Properties of two negotiations at once.                                 *)
(***************************************************************************)
RequestsOf(frame, url) == {i \in DOMAIN frame.sent : frame.sent[i].url = url}

\* the negotiation in `frame` is the one of the account `own` alone: its
\* session has the account's credentials, each of its requests carries the
\* account name and the values the server issued to that account, and what
\* it returned is made of them
OwnNegotiation(frame, own) ==
    /\ frame.username = own.username
    /\ frame.password = own.password
    /\ \A i \in RequestsOf(frame, GetPasswordRSAPublicKey) :
          frame.sent[i].params.account_name = own.username
    /\ \A i \in RequestsOf(frame, BeginAuthSessionViaCredentials) :
          /\ frame.sent[i].data.account_name = own.username
          /\ frame.sent[i].data.encryption_timestamp = int10(own.timestamp)
          /\ frame.sent[i].data.encrypted_password =
                encrypt_password(frame.steam_key, own.password, "ps1")
    /\ \A i \in RequestsOf(frame, UpdateAuthSessionWithSteamGuardCode) :
          /\ frame.sent[i].data.client_id = own.client_id
          /\ frame.sent[i].data.steamid = own.steamid
          /\ frame.sent[i].data.code = generate_steam_code(59, "c2VjcmV0")
    /\ \A i \in RequestsOf(frame, PollAuthSessionStatus) :
          /\ frame.sent[i].data.client_id = own.client_id
          /\ frame.sent[i].data.request_id = own.request_id
    /\ \A i \in RequestsOf(frame, finalizelogin) :
          /\ frame.sent[i].data.nonce = own.refresh_token
          /\ frame.sent[i].data.sessionid = random_choices(HexDigits, 24, own.seed)
    /\ \A i \in DOMAIN frame.sent :
          frame.sent[i].url \notin Endpoints =>
             frame.sent[i].data.steamID = own.steamid
    /\ frame.pc = "returned" =>
          /\ frame.result.steamid = own.steamid
          /\ frame.result.client_id = own.client_id
          /\ frame.result.refresh_token = own.refresh_token
          /\ frame.result.sessionid = random_choices(HexDigits, 24, own.seed)
          /\ Len(frame.result.transfer_info) = 2
    /\ frame.pc = "raised" <=> frame.raised # NoError

====
